---- MODULE Spec2Model ----
(***************************************************************************)
(* WatchLLM Python SDK (packages/sdk-python/src/watchllm):                 *)
(* client.py: the sampler, the redactor, the delivery queue, the flush     *)
(* worker, manual flush()/close() and the HTTP batch transport of          *)
(* WatchLLMClient; instrumentation.py: the trace() run context, the        *)
(* wrappers put around the provider methods, auto_instrument() and         *)
(* disable_instrumentation(), calculate_cost; langchain.py: the LLM        *)
(* callbacks of WatchLLMCallbackHandler; and aisentry/client.py: the queue *)
(* and flush() of AISentryClient.                                          *)
(*                                                                         *)
(* Threads: "app" is the application thread calling log_*, flush() and     *)
(* close(); "worker" is the daemon thread running _flush_worker.  Every    *)
(* action is one atomic step of one thread: a whole log_* call (one        *)
(* queue.put), one iteration of the drain loop of flush() (one             *)
(* get_nowait), one _send_events_batch call, one evaluation of the         *)
(* worker's loop condition, one evaluation of its flush triggers, one      *)
(* sleep.                                                                  *)
(***************************************************************************)
EXTENDS Integers, Sequences, FiniteSets, TLC

VARIABLES
    queue,          \* self._event_queue: FIFO of serialized events (event ids)
    prefill,        \* number of events already queued when the behaviour starts
    nLogs,          \* number of log_* calls made so far
    pc,             \* [thread -> position]
    events,         \* [thread -> the local list `events` of its running flush()]
    op,             \* what the app thread is running: "none", "flush", "close"
    shutdown,       \* self._shutdown_event.is_set()
    elapsed,        \* worker: time since last_flush_time, in whole seconds,
                    \* saturating at FlushIntervalSeconds
    sent,           \* history: the batches passed to _send_events_batch, in call
                    \* order
    sendFailed,     \* history: some _send_events_batch call raised
    dropped,        \* history: ids of the events _queue_event dropped (queue full)
    appRaised,      \* whether the app's last call (log_*, flush, close) raised
    lastFlush,      \* the app's last finished flush(): [result, batch, via]
    atClose,        \* history: the queue contents when close() was called
    closeReturned,  \* close() has returned
    nFlushes,       \* flush() calls started, counted when prefill > 0
    nSwitches,      \* history: get_nowait() calls that came between two
                    \* iterations of the other thread's drain loop, counted
                    \* when prefill > 0
    sample_rate,    \* self.sample_rate, in percent
    redact_pii,     \* self.redact_pii
    rejected,       \* history: ids of the events _queue_event discarded because
                    \* redacting them raised
    script,         \* transport: the server's answers to successive attempts
    tResult,        \* transport: outcome of the _send_events_batch call
    ctx,            \* _run_id_context: [storage slot -> [run_id, user_id, tags]]
    frames,         \* [unit -> the frames of its open trace() scopes, outermost first]
    threadOf,       \* [unit -> the OS thread the unit (thread or task) runs on]
    nUuid,          \* number of uuid4() ids generated so far
    lastRunId,      \* [unit -> what its last get_current_run_id() returned]
    exitKind,       \* [unit -> how it left its last scope: "return" or "raise"]
    call,           \* [unit -> its wrapper call in progress]
    outcome,        \* [unit -> what its last finished wrapper call did]
    nCalls,         \* wrapper calls started so far
    emitted,        \* history: the log_prompt_call calls of the wrappers, in order
    method,         \* [target -> the callable installed as the provider method]
    marker,         \* [target -> the class has _watchllm_instrumented]
    _original_methods,          \* [target -> recorded callable, or Absent]
    _instrumentation_enabled,   \* the global enable flag
    _global_client,             \* the global client: 0 for None, else its number
    nClients,       \* WatchLLMClient objects auto_instrument() has created
    importable,     \* [provider -> its library can be imported]
    ops,            \* history: the auto_instrument/disable_instrumentation calls
    text,           \* redactor: a string field of the event being redacted
    once,           \* redactor: _redact_pii of the event
    twice,          \* redactor: _redact_pii of that result
    model,          \* calculate_cost: the model name, a string of characters
    tokens_input,   \* calculate_cost: its tokens_input
    tokens_output,  \* calculate_cost: its tokens_output
    cost,           \* calculate_cost: what it returned, in 10^-8 USD
    cost_estimate_usd,  \* the cost_estimate_usd of the event, in 10^-8 USD
    run,            \* [installer thread -> where it is in its auto_instrument()
                    \* or disable_instrumentation() call]
    sentryQueue,    \* AISentryClient._event_queue: FIFO of event ids
    sentryFlush,    \* AISentryClient: [thread -> its flush() call: position,
                    \* the local list `events`, index of the re-queue loop,
                    \* how the call ended]
    sentryLogs,     \* AISentryClient: log_* calls made so far
    sentryDelivered,    \* history: how often the server has taken each event
    handler,        \* WatchLLMCallbackHandler: its run_id, user_id and tags
    _runs,          \* handler._runs: [key -> its RunContext: the start
                    \* callback that filled it and its step_count]
    _run_stack,     \* handler._run_stack
    nCallbacks,     \* callbacks the handler has received
    lastCallback,   \* the last callback: its name and its run_id argument
    heldRuns,       \* history: the run ids that are started: given to a
                    \* start or an agent callback and to no end or error
                    \* callback since
    logged          \* history: the log_* calls the handler made on its client

clientVars == <<queue, prefill, nLogs, pc, events, op, shutdown, elapsed, sent,
                sendFailed, dropped, appRaised, lastFlush, atClose, closeReturned,
                nFlushes, nSwitches, sample_rate, redact_pii, rejected>>

transportVars == <<script, tResult>>

traceVars == <<ctx, frames, threadOf, nUuid, lastRunId, exitKind, call, outcome,
               nCalls, emitted>>

patchVars == <<method, marker, _original_methods, _instrumentation_enabled,
               _global_client, nClients, importable, ops>>

redactVars == <<text, once, twice>>

costVars == <<model, tokens_input, tokens_output, cost, cost_estimate_usd>>

raceVars == <<run>>

sentryVars == <<sentryQueue, sentryFlush, sentryLogs, sentryDelivered>>

chainVars == <<handler, _runs, _run_stack, nCallbacks, lastCallback, heldRuns,
               logged>>

\* the parts of the program modelled further down
moreVars == <<raceVars, sentryVars, chainVars>>

\* what a step of the client leaves alone
otherVars == <<transportVars, traceVars, patchVars, redactVars, costVars, moreVars>>

vars == <<clientVars, otherVars>>

(***************************************************************************)
(* Bounds of the model.                                                    *)
(***************************************************************************)
\* log_* calls the app thread makes in one behaviour
MaxLogs == 3
\* log_* calls made on an AISentryClient in one behaviour
MaxSentryLogs == 2
\* batches the server of an AISentryClient takes in one behaviour while the
\* send that carried them raises
MaxLostAnswers == 1
\* callbacks a LangChain handler receives in one behaviour
MaxCallbacks == 3
\* get_nowait() calls that come between two iterations of the other thread's
\* drain loop, in a behaviour that starts from a queue that is not empty: a
\* limit on the schedules explored, each of whose steps is one iteration
MaxSwitches == 1
\* log_* calls the app thread makes in a behaviour that starts from a queue
\* of more than one batch
MaxBulkLogs == 1
\* flush() calls started in a behaviour that starts from a queue of more than
\* one batch
MaxBulkFlushes == 2
\* flush() calls started in a behaviour that starts from a queue one event
\* short of its capacity
MaxFullFlushes == 1
\* seconds one time.sleep(1.0) may take beyond the second it asks for
MaxOversleep == 1
\* answers the server gives to one batch send
MaxResp == 4
\* trace() scopes one unit has open at a time
MaxDepth == 2
\* ids uuid4() generates in one behaviour
MaxUuids == 1
\* calls made through the wrappers in one behaviour
MaxCalls == 2
\* auto_instrument() and disable_instrumentation() calls in one behaviour
MaxOps == 4
\* pieces a redacted text is put together from
MaxPieces == 3

(***************************************************************************)
(* Program constants.                                                      *)
(***************************************************************************)
QueueCapacity == 1000
FlushCap == 100
BatchSize == 2
FlushIntervalSeconds == 5
SleepSeconds == 1
RetryTotal == 3
JoinTimeout == 1
DefaultSampleRate == 100

Threads == {"app", "worker"}

Min(a, b) == IF a <= b THEN a ELSE b

Occurrences(q, e) == Cardinality({i \in DOMAIN q : q[i] = e})

Range(s) == {s[i] : i \in 1..Len(s)}

(***************************************************************************)
(* Transport: session.post through the HTTPAdapter mounted by _get_session *)
(* with Retry(total=3, backoff_factor=1, status_forcelist=[...]), followed *)
(* by response.raise_for_status().                                         *)
(***************************************************************************)
StatusForcelist == {408, 429, 500, 502, 503, 504}

\* Retry(...) is built without allowed_methods, so urllib3's default applies
AllowedMethods == {"HEAD", "GET", "PUT", "DELETE", "OPTIONS", "TRACE"}

Method == "POST"

\* what one attempt can end in: an HTTP status, a failure to connect, or a
\* failure after the request was sent: the connection is reset (ReadError),
\* or no answer arrives within the client's timeout (ReadTimeout)
Statuses == {200, 401, 404, 408, 429, 500, 502, 503, 504}

Status(c) == [kind |-> "status", code |-> c]

ConnectError == [kind |-> "connect_error", code |-> 0]

ReadError == [kind |-> "read_error", code |-> 0]

ReadTimeout == [kind |-> "read_timeout", code |-> 0]

Outcomes == {Status(c) : c \in Statuses} \cup {ConnectError, ReadError, ReadTimeout}

IsStatus(o) == o.kind = "status"

IsMethodRetryable(m) == m \in AllowedMethods

\* Retry.is_retry: a status is retried when the method is retryable and the
\* status is in status_forcelist
IsRetry(m, status) == IsMethodRetryable(m) /\ status \in StatusForcelist

\* faulty variant: gives up one retry early
IsExhaustedEarly(total) == total < 1

\* Retry.is_exhausted: the counter went below zero
IsExhausted(total) == total < 0

\* response.raise_for_status(): 4xx and 5xx raise HTTPError
RaisesForStatus(status) == status >= 400 /\ status < 600

\* Retry._is_read_error: a reset (ProtocolError) and a read timeout
\* (ReadTimeoutError) are both read errors
IsReadError(o) == o.kind \in {"read_error", "read_timeout"}

\* Retry.increment for an error: a connection error is retried whatever the
\* method, a read error only for a retryable method
ErrorIsRetried(m, o) ==
    o.kind = "connect_error" \/ (IsReadError(o) /\ IsMethodRetryable(m))

\* HTTPAdapter.send: the exception of requests that stands for the urllib3
\* error re-raised by Retry.increment: ReadTimeoutError becomes ReadTimeout
\* (a Timeout, not a ConnectionError), every other error ConnectionError
Reraised(o) == IF o.kind = "read_timeout" THEN "ReadTimeout" ELSE "ConnectionError"

\* faulty variant: retries whatever is not a 200
AttemptIsRetriedAlways(m, o) == o # Status(200)

\* whether the attempt that ended in o is followed by Retry.increment
AttemptIsRetried(m, o) ==
    IF IsStatus(o) THEN IsRetry(m, o.code) ELSE ErrorIsRetried(m, o)

\* _send_events_batch(events) against a server answering resp[1], resp[2], ...:
\* [result |-> "ok" | "raised" | "pending", attempts |-> n, err |-> ...]
RECURSIVE SendFrom(_, _, _)
SendFrom(resp, total, attempts) ==
    IF resp = <<>> THEN [result |-> "pending", attempts |-> attempts, err |-> "none"]
    ELSE LET o == Head(resp)
             n == attempts + 1
         IN IF AttemptIsRetried(Method, o)
            THEN IF IsExhausted(total - 1)
                 THEN [result |-> "raised", attempts |-> n,
                       err |-> IF IsStatus(o) THEN "RetryError" ELSE "ConnectionError"]
                 ELSE SendFrom(Tail(resp), total - 1, n)
            ELSE IF ~IsStatus(o)
                 THEN [result |-> "raised", attempts |-> n, err |-> Reraised(o)]
                 ELSE IF RaisesForStatus(o.code)
                      THEN [result |-> "raised", attempts |-> n, err |-> "HTTPError"]
                      ELSE [result |-> "ok", attempts |-> n, err |-> "none"]

_send_events_batch(resp) == SendFrom(resp, RetryTotal, 0)


(***************************************************************************)
(* Redactor: _redact_pii on an event with one string field.  A string is a *)
(* sequence of characters; LF stands for the line feed.  The field is      *)
(* serialized as a JSON string, the two re.sub calls run on the serialized *)
(* text, and the result is parsed back.                                    *)
(***************************************************************************)
Upper ==
    {"A", "B", "C", "D", "E", "F", "G", "H", "I", "J", "K", "L", "M",
     "N", "O", "P", "Q", "R", "S", "T", "U", "V", "W", "X", "Y", "Z"}

Lower ==
    {"a", "b", "c", "d", "e", "f", "g", "h", "i", "j", "k", "l", "m",
     "n", "o", "p", "q", "r", "s", "t", "u", "v", "w", "x", "y", "z"}

Digits == {"0", "1", "2", "3", "4", "5", "6", "7", "8", "9"}

LF == "<LF>"

\* \w
WordChars == Upper \cup Lower \cup Digits \cup {"_"}

\* [A-Za-z0-9._%+-]
LocalChars == Upper \cup Lower \cup Digits \cup {".", "_", "%", "+", "-"}

\* [A-Za-z0-9.-]
DomainChars == Upper \cup Lower \cup Digits \cup {".", "-"}

\* [A-Z|a-z]
TldChars == Upper \cup Lower \cup {"|"}

\* [-\s]: in serialized text the only white space is the space
SepChars == {"-", " "}

RedactedEmail ==
    <<"[", "R", "E", "D", "A", "C", "T", "E", "D", "_", "E", "M", "A", "I", "L", "]">>

RedactedCC ==
    <<"[", "R", "E", "D", "A", "C", "T", "E", "D", "_", "C", "C", "]">>

IsWord(s, i) == i >= 1 /\ i <= Len(s) /\ s[i] \in WordChars

\* \b between s[i - 1] and s[i]
Boundary(s, i) == IsWord(s, i - 1) # IsWord(s, i)

\* the last position of the longest run of characters of cls that starts at
\* i; i - 1 when s[i] is not in cls
RECURSIVE RunEnd(_, _, _)
RunEnd(s, i, cls) ==
    IF i <= Len(s) /\ s[i] \in cls THEN RunEnd(s, i + 1, cls) ELSE i - 1

Max(S) == CHOOSE x \in S : \A y \in S : y <= x

\* where the match of \b[A-Za-z0-9._%+-]+@[A-Za-z0-9.-]+\.[A-Z|a-z]{2,}\b that
\* starts at i ends, 0 when there is none: the local part is the whole run up
\* to the @; the domain and the last label are the longest that match, the
\* domain first
EmailEnd(s, i) ==
    LET le == RunEnd(s, i, LocalChars)
        ds == le + 2
        de == RunEnd(s, ds, DomainChars)
        TldEnds(d) ==
            {e \in (d + 3)..Len(s) :
                /\ \A k \in (d + 2)..e : s[k] \in TldChars
                /\ Boundary(s, e + 1)}
        Dots == {d \in ds..de : d + 1 <= Len(s) /\ s[d + 1] = "." /\ TldEnds(d) # {}}
    IN IF ~Boundary(s, i) \/ le < i \/ le + 1 > Len(s) THEN 0
       ELSE IF s[le + 1] # "@" \/ Dots = {} THEN 0
            ELSE Max(TldEnds(Max(Dots)))

\* four digits from position i on
FourDigits(s, i) == i + 3 <= Len(s) /\ \A k \in i..(i + 3) : s[k] \in Digits

\* the position after \d{4}[-\s]? matched at i, 0 when it does not match
AfterGroup(s, i) ==
    IF i = 0 \/ ~FourDigits(s, i) THEN 0
    ELSE IF i + 4 <= Len(s) /\ s[i + 4] \in SepChars THEN i + 5 ELSE i + 4

\* where the match of \b(?:\d{4}[-\s]?){3}\d{4}\b that starts at i ends
CardEnd(s, i) ==
    LET p == AfterGroup(s, AfterGroup(s, AfterGroup(s, i)))
    IN IF Boundary(s, i) /\ p # 0 /\ FourDigits(s, p) /\ Boundary(s, p + 4)
       THEN p + 3
       ELSE 0

MatchEnd(pattern, s, i) ==
    IF pattern = "email" THEN EmailEnd(s, i) ELSE CardEnd(s, i)

Replacement(pattern) == IF pattern = "email" THEN RedactedEmail ELSE RedactedCC

\* re.sub(pattern, replacement, s), from position i on: the matches are found
\* from left to right and do not overlap
RECURSIVE Sub(_, _, _)
Sub(pattern, s, i) ==
    IF i > Len(s) THEN <<>>
    ELSE LET e == MatchEnd(pattern, s, i)
         IN IF e = 0
            THEN <<s[i]>> \o Sub(pattern, s, i + 1)
            ELSE Replacement(pattern) \o Sub(pattern, s, e + 1)

\* the characters of a JSON string for the characters of t: a line feed is
\* written as a backslash and an n
RECURSIVE Escape(_)
Escape(t) ==
    IF t = <<>> THEN <<>>
    ELSE (IF Head(t) = LF THEN <<"\\", "n">> ELSE <<Head(t)>>) \o Escape(Tail(t))

\* json.dumps of the field
json_dumps(t) == <<"\"">> \o Escape(t) \o <<"\"">>

\* the characters a JSON string stands for; a backslash must be followed by
\* the letter of an escape, of which the texts here hold only the n
RECURSIVE Unescape(_)
Unescape(s) ==
    IF s = <<>> THEN [state |-> "ok", text |-> <<>>]
    ELSE IF Head(s) # "\\"
         THEN LET rest == Unescape(Tail(s))
              IN [state |-> rest.state, text |-> <<Head(s)>> \o rest.text]
         ELSE IF Len(s) >= 2 /\ s[2] = "n"
              THEN LET rest == Unescape(SubSeq(s, 3, Len(s)))
                   IN [state |-> rest.state, text |-> <<LF>> \o rest.text]
              ELSE [state |-> "raised", text |-> <<>>]

\* json.loads of the field: JSONDecodeError on an invalid escape
json_loads(s) ==
    IF Len(s) >= 2 /\ s[1] = "\"" /\ s[Len(s)] = "\""
    THEN LET r == Unescape(SubSeq(s, 2, Len(s) - 1))
         IN IF r.state = "ok" THEN r ELSE [state |-> "raised", text |-> <<>>]
    ELSE [state |-> "raised", text |-> <<>>]

\* a field whose value json.dumps cannot encode (a set, an object): TypeError
Unserializable == <<"<object>">>

IsSerializable(t) == t # Unserializable

\* the redactor was not run
NotRun == [state |-> "not_run", text |-> <<>>]

\* _redact_pii(event_dict) with redaction switched on or off:
\* [state |-> "ok", text |-> the field] or [state |-> "raised"]
RedactPii(on, t) ==
    IF ~on THEN [state |-> "ok", text |-> t]
    ELSE IF ~IsSerializable(t) THEN [state |-> "raised", text |-> <<>>]
         ELSE json_loads(Sub("cc", Sub("email", json_dumps(t), 1), 1))

_redact_pii(t) == RedactPii(redact_pii, t)

\* the pieces the texts of the model are put together from
EmailPiece == <<"b", "o", "b", "@", "a", "b", ".", "c", "o", "m">>

CardPiece ==
    <<"1", "2", "3", "4", " ", "5", "6", "7", "8", "-", "1", "2", "3", "4", "5", "6", "7", "8">>

Pieces ==
    {EmailPiece, CardPiece, <<LF>>, <<" ">>, <<"o", "n">>, <<".">>, <<"@">>}

\* the texts made of at most n pieces
RECURSIVE TextsOf(_)
TextsOf(n) ==
    IF n = 0 THEN {<<>>}
    ELSE LET shorter == TextsOf(n - 1)
         IN shorter \cup {t \o p : t \in shorter, p \in Pieces}

Texts == TextsOf(MaxPieces)

\* a text without an address or a card number, and one where an address
\* follows a line feed
PlainText == <<"h", "i">>

BrokenText == <<LF>> \o EmailPiece

LogTexts == {PlainText, BrokenText}

\* the events of the model, one of them not serializable
EventTexts == LogTexts \cup {Unserializable}

\* the first and the second run of the redactor on one text
RedactOnce ==
    /\ once = NotRun
    /\ once' = _redact_pii(text)
    /\ UNCHANGED <<text, twice>>
    /\ UNCHANGED <<clientVars, transportVars, traceVars, patchVars, costVars, moreVars>>

RedactTwice ==
    /\ once.state = "ok"
    /\ twice = NotRun
    /\ twice' = _redact_pii(once.text)
    /\ UNCHANGED <<text, once>>
    /\ UNCHANGED <<clientVars, transportVars, traceVars, patchVars, costVars, moreVars>>

RedactNext == RedactOnce \/ RedactTwice

(***************************************************************************)
(* Sampler and delivery queue.                                             *)
(***************************************************************************)
\* the values random.random() is drawn from, in percent
RandomDraws == {0, 50, 99}

\* _should_sample, rates and draws in percent
_should_sample(rate, r) == rate >= 100 \/ (rate > 0 /\ r < rate)

\* faulty variant: a queue without maxsize
QueueFullUnchecked(q) == FALSE

\* queue.Queue(maxsize=1000): put(block=False) raises Full at capacity
QueueFull(q) == Len(q) >= QueueCapacity

\* log_* calls the app thread makes within the bounds of the model
LogBudget ==
    IF prefill > 0 /\ prefill < QueueCapacity - 1 THEN MaxBulkLogs ELSE MaxLogs

\* the id of the event made by the next log_* call
NewEventId == prefill + nLogs + 1

\* flush() may be called once more within the bounds of the model
FlushBudget == IF prefill >= QueueCapacity - 1 THEN MaxFullFlushes ELSE MaxBulkFlushes

MayFlush == prefill > 0 => nFlushes < FlushBudget

FlushCounted == IF prefill > 0 THEN nFlushes + 1 ELSE nFlushes

\* an empty outcome record for the app's last flush()
NoFlush == [result |-> "none", batch |-> <<>>, via |-> "none"]

(***************************************************************************)
(* The application thread: log_*, flush(), close().                        *)
(***************************************************************************)
\* log_prompt_call / log_agent_step / log_error -> _queue_event, for an event
\* whose text is p
_queue_event(p) ==
    /\ pc["app"] = "idle"
    /\ nLogs < LogBudget
    /\ \E r \in RandomDraws :
         LET id == NewEventId
         IN IF ~_should_sample(sample_rate, r)
            THEN UNCHANGED <<queue, dropped, rejected>>
            ELSE IF _redact_pii(p).state = "raised"
                 THEN /\ rejected' = rejected \cup {id}
                      /\ UNCHANGED <<queue, dropped>>
                 ELSE IF QueueFull(queue)
                      THEN /\ queue' = queue
                           /\ dropped' = dropped \cup {id}
                           /\ rejected' = rejected
                      ELSE /\ queue' = Append(queue, id)
                           /\ dropped' = dropped
                           /\ rejected' = rejected
    /\ nLogs' = nLogs + 1
    /\ appRaised' = FALSE
    /\ UNCHANGED <<prefill, pc, events, op, shutdown, elapsed, sent, sendFailed,
                   lastFlush, atClose, closeReturned, sample_rate, nFlushes, nSwitches, redact_pii,
                   otherVars>>

\* a log_* call for an event that holds nothing to redact
Log == _queue_event(PlainText)

\* a log_* call for any of the events of the model
LogAny == \E p \in LogTexts : _queue_event(p)

\* a log_* call for the event whose text is `text`
LogText == _queue_event(text)

\* the application calls flush()
FlushCall ==
    /\ pc["app"] = "idle"
    /\ MayFlush
    /\ nFlushes' = FlushCounted
    /\ op' = "flush"
    /\ events' = [events EXCEPT !["app"] = <<>>]
    /\ pc' = [pc EXCEPT !["app"] = "drain"]
    /\ lastFlush' = NoFlush
    /\ appRaised' = FALSE
    /\ UNCHANGED <<queue, prefill, nLogs, shutdown, elapsed, sent, sendFailed, dropped,
                   atClose, closeReturned, sample_rate, redact_pii, rejected,
                   nSwitches, otherVars>>

\* the application calls close(): set the shutdown event, then flush()
CloseCall ==
    /\ pc["app"] = "idle"
    /\ ~shutdown
    /\ MayFlush
    /\ nFlushes' = FlushCounted
    /\ shutdown' = TRUE
    /\ atClose' = queue
    /\ op' = "close"
    /\ events' = [events EXCEPT !["app"] = <<>>]
    /\ pc' = [pc EXCEPT !["app"] = "drain"]
    /\ lastFlush' = NoFlush
    /\ appRaised' = FALSE
    /\ UNCHANGED <<queue, prefill, nLogs, elapsed, sent, sendFailed, dropped, closeReturned,
                   sample_rate, redact_pii, rejected, nSwitches, otherVars>>

\* close() after its flush(): join(timeout=1.0) returns when the worker has
\* stopped or when the timeout expires, then the session is closed
\* faulty variant: a join without timeout
JoinedUnbounded(stopped, waited) == stopped

\* `self._flush_thread.join(timeout=1.0)` returns once the worker has stopped
\* or the timeout has expired
Joined(stopped, waited) == stopped \/ waited >= JoinTimeout

CloseReturn ==
    /\ pc["app"] = "join"
    /\ \E waited \in 0..JoinTimeout : Joined(pc["worker"] = "stopped", waited)
    /\ pc' = [pc EXCEPT !["app"] = "idle"]
    /\ op' = "none"
    /\ closeReturned' = TRUE
    /\ appRaised' = FALSE
    /\ UNCHANGED <<queue, prefill, nLogs, events, shutdown, elapsed, sent, sendFailed, dropped,
                   lastFlush, atClose, sample_rate, nFlushes, nSwitches, redact_pii, rejected,
                   otherVars>>

(***************************************************************************)
(* flush(), run by either thread.                                          *)
(***************************************************************************)
\* where thread t goes when its flush() returns
AfterFlush(t) ==
    IF t = "worker" THEN "stamp" ELSE IF op = "close" THEN "join" ELSE "idle"

\* faulty variant: a drain loop without the break at 100
DrainUnlimited(n) == FALSE

\* `if len(events) >= 100: break`
DrainLimit(n) == n >= FlushCap

\* flush() returned to the app: what it did, and whether it raised
FlushReturned(t, result, batch) ==
    IF t = "app"
    THEN /\ lastFlush' = [result |-> result, batch |-> batch, via |-> op]
         /\ appRaised' = FALSE
         /\ op' = IF op = "close" THEN op ELSE "none"
    ELSE UNCHANGED <<lastFlush, appRaised, op>>

\* faulty variant: reading the head of the queue without removing it
AfterGetKept(q) == q

\* the queue after `self._event_queue.get_nowait()` returned its head
AfterGet(q) == Tail(q)

\* the other of the two threads that run flush()
Other(t) == IF t = "app" THEN "worker" ELSE "app"

\* the get_nowait() thread t is about to make comes between two iterations of
\* the other thread's drain loop: that thread is in its loop and made the last
\* get_nowait() (the ids of the events grow along the queue)
Switches(t) ==
    /\ pc[Other(t)] = "drain"
    /\ events[Other(t)] # <<>>
    /\ \/ events[t] = <<>>
       \/ events[Other(t)][Len(events[Other(t)])] > events[t][Len(events[t])]

\* thread t may make its next get_nowait() within the bounds of the model
MaySwitch(t) == prefill > 0 /\ Switches(t) => nSwitches < MaxSwitches

SwitchCounted(t) ==
    IF prefill > 0 /\ Switches(t) THEN nSwitches + 1 ELSE nSwitches

\* one iteration of `while not self._event_queue.empty(): get_nowait() ...`,
\* or the exit from the loop with nothing collected (`if not events: return`).
\* Every iteration is a step: one get_nowait(), then the test of the break.
\* Another thread may run between any two iterations; from a queue that is
\* not empty at the start, the schedules are those with at most MaxSwitches
\* turns taken between two drain loops
Drain(t) ==
    /\ pc[t] = "drain"
    /\ IF queue = <<>>
       THEN /\ UNCHANGED <<queue, events, nSwitches>>
            /\ IF events[t] = <<>>
               THEN /\ pc' = [pc EXCEPT ![t] = AfterFlush(t)]
                    /\ FlushReturned(t, "empty", <<>>)
               ELSE /\ pc' = [pc EXCEPT ![t] = "send"]
                    /\ UNCHANGED <<lastFlush, appRaised, op>>
       ELSE /\ MaySwitch(t)
            /\ nSwitches' = SwitchCounted(t)
            /\ queue' = AfterGet(queue)
            /\ events' = [events EXCEPT ![t] = Append(@, Head(queue))]
            /\ pc' = [pc EXCEPT ![t] =
                        IF DrainLimit(Len(events[t]) + 1) THEN "send" ELSE "drain"]
            /\ UNCHANGED <<lastFlush, appRaised, op>>
    /\ UNCHANGED <<prefill, nLogs, shutdown, elapsed, sent, sendFailed, dropped,
                   atClose, closeReturned, sample_rate, nFlushes, redact_pii, rejected,
                   otherVars>>

\* the answers of the server to one batch send: it accepts, or it is down
ServerUp == [i \in 1..MaxResp |-> Status(200)]

ServerDown == [i \in 1..MaxResp |-> Status(503)]

ClientScripts == {ServerUp, ServerDown}

\* faulty variant: a delivery error that nothing catches ends the worker thread
AfterSendUncaught(t, result) ==
    IF t = "worker" /\ result # "ok" THEN "stopped" ELSE AfterFlush(t)

\* where thread t goes after _send_events_batch: flush() catches what the send
\* raises, prints it and returns as after a delivered batch
AfterSend(t, result) == AfterFlush(t)

\* `try: self._send_events_batch(events) except Exception as e: print(...)`
Send(t) ==
    /\ pc[t] = "send"
    /\ \E resp \in ClientScripts :
         LET r == _send_events_batch(resp)
         IN /\ sent' = Append(sent, events[t])
            /\ sendFailed' = (sendFailed \/ r.result # "ok")
            /\ FlushReturned(t, IF r.result = "ok" THEN "sent" ELSE "failed", events[t])
            /\ pc' = [pc EXCEPT ![t] = AfterSend(t, r.result)]
    /\ events' = [events EXCEPT ![t] = <<>>]
    /\ UNCHANGED <<queue, prefill, nLogs, shutdown, elapsed, dropped, atClose,
                   closeReturned, sample_rate, nFlushes, nSwitches, redact_pii, rejected,
                   otherVars>>

(***************************************************************************)
(* The flush worker.                                                       *)
(***************************************************************************)
\* faulty variant: `and` between the two triggers
ShouldFlushBoth(queue_size, time_since_flush) ==
    queue_size >= BatchSize /\ time_since_flush >= FlushIntervalSeconds

\* faulty variant: no time trigger
ShouldFlushSizeOnly(queue_size, time_since_flush) ==
    queue_size >= BatchSize

\* faulty variant: a worker that flushes whatever is queued on every tick
ShouldFlushAnything(queue_size, time_since_flush) == queue_size > 0

\* should_flush of _flush_worker
ShouldFlush(queue_size, time_since_flush) ==
    \/ queue_size >= BatchSize
    \/ (queue_size > 0 /\ time_since_flush >= FlushIntervalSeconds)

\* `while not self._shutdown_event.is_set():`
WorkerLoop ==
    /\ pc["worker"] = "loop"
    /\ pc' = [pc EXCEPT !["worker"] = IF shutdown THEN "stopped" ELSE "check"]
    /\ UNCHANGED <<queue, prefill, nLogs, events, op, shutdown, elapsed, sent,
                   sendFailed, dropped, appRaised, lastFlush, atClose, closeReturned,
                   sample_rate, nFlushes, nSwitches, redact_pii, rejected,
                   otherVars>>

\* read qsize(), evaluate should_flush, call flush() or go to sleep
WorkerCheck ==
    /\ pc["worker"] = "check"
    /\ IF ShouldFlush(Len(queue), elapsed)
       THEN /\ MayFlush
            /\ nFlushes' = FlushCounted
            /\ pc' = [pc EXCEPT !["worker"] = "drain"]
            /\ events' = [events EXCEPT !["worker"] = <<>>]
       ELSE /\ pc' = [pc EXCEPT !["worker"] = "sleep"]
            /\ UNCHANGED <<events, nFlushes>>
    /\ UNCHANGED <<queue, prefill, nLogs, op, shutdown, elapsed, sent, sendFailed, dropped,
                   appRaised, lastFlush, atClose, closeReturned, sample_rate,
                   redact_pii, rejected, nSwitches, otherVars>>

\* `last_flush_time = time.time()` after the worker's flush() returned
WorkerStamp ==
    /\ pc["worker"] = "stamp"
    /\ elapsed' = 0
    /\ pc' = [pc EXCEPT !["worker"] = "sleep"]
    /\ UNCHANGED <<queue, prefill, nLogs, events, op, shutdown, sent, sendFailed, dropped,
                   appRaised, lastFlush, atClose, closeReturned, sample_rate,
                   nFlushes, nSwitches, redact_pii, rejected, otherVars>>

\* `time.sleep(1.0)`: at least one second passes
WorkerSleep ==
    /\ pc["worker"] = "sleep"
    /\ \E d \in SleepSeconds..(SleepSeconds + MaxOversleep) :
         elapsed' = Min(FlushIntervalSeconds, elapsed + d)
    /\ pc' = [pc EXCEPT !["worker"] = "loop"]
    /\ UNCHANGED <<queue, prefill, nLogs, events, op, shutdown, sent, sendFailed, dropped,
                   appRaised, lastFlush, atClose, closeReturned, sample_rate,
                   nFlushes, nSwitches, redact_pii, rejected, otherVars>>

WorkerNext ==
    \/ WorkerLoop
    \/ WorkerCheck
    \/ Drain("worker")
    \/ Send("worker")
    \/ WorkerStamp
    \/ WorkerSleep

AppNext ==
    \/ Log
    \/ FlushCall
    \/ CloseCall
    \/ Drain("app")
    \/ Send("app")
    \/ CloseReturn

(***************************************************************************)
(* instrumentation.py: the run context and trace().                        *)
(*                                                                         *)
(* A unit is one call stack: an OS thread, or an asyncio task.  threadOf   *)
(* says on which OS thread a unit runs; tasks of one event loop share      *)
(* their thread.  A task runs until it awaits: while it is inside a scope  *)
(* and not awaiting, no other task of its thread takes a step.             *)
(***************************************************************************)
OSThreads == {"T1", "T2"}

Units == {"u1", "u2"}

\* Python's None, and the empty list, among values that are strings
None == "None"

EmptyList == "[]"

\* the truth value Python gives an Optional[str] or an Optional[List[str]]
Truthy(v) == v \notin {None, "", EmptyList}

\* str(uuid.uuid4()): the n-th id generated
Uuid(n) == "uuid-" \o ToString(n)

\* the arguments trace() is called with in the model
ScopeArgs ==
    { [run_id |-> "X", user_id |-> "alice", tags |-> "[x]"],
      [run_id |-> "Y", user_id |-> None, tags |-> None],
      [run_id |-> None, user_id |-> "bob", tags |-> EmptyList],
      [run_id |-> "", user_id |-> None, tags |-> "[y]"] }

\* what getattr(_run_id_context, ..., None) gives where nothing was set
NoContext == [run_id |-> None, user_id |-> None, tags |-> None]

\* faulty variant: one module-level context for all threads
SharedContext(u) == "T1"

\* _run_id_context = threading.local(): the storage a unit reads and writes
\* is that of the OS thread it runs on
_run_id_context(u) == threadOf[u]

\* get_current_run_id() in context c when n ids were generated so far
get_current_run_id(c, n) == IF c.run_id = None THEN Uuid(n + 1) ELSE c.run_id

\* whether that call generates an id
Generates(c) == c.run_id = None

\* a unit that does not hold its thread: it awaits the provider inside a
\* wrapper, or it is outside every scope and outside every wrapper
Suspended(v) ==
    call[v].phase \in {"awaiting", "delegating"}
        \/ (frames[v] = <<>> /\ call[v].phase = "idle")

\* unit u can take a step: the other units of its OS thread do not hold it
MayRun(u) ==
    \A v \in Units \ {u} : threadOf[v] = threadOf[u] => Suspended(v)

\* the context a scope installs: `run_id or str(uuid.uuid4())`, user_id,
\* `tags or []`
Installs(a, n) ==
    [run_id |-> IF Truthy(a.run_id) THEN a.run_id ELSE Uuid(n + 1),
     user_id |-> a.user_id,
     tags |-> IF Truthy(a.tags) THEN a.tags ELSE EmptyList]

\* entering `with trace(run_id, user_id, tags):` up to the yield
TraceEnter(u) ==
    /\ MayRun(u)
    /\ call[u].phase = "idle"
    /\ Len(frames[u]) < MaxDepth
    /\ \E a \in ScopeArgs :
         LET slot == _run_id_context(u)
             new == Installs(a, nUuid)
         IN /\ ~Truthy(a.run_id) => nUuid < MaxUuids
            /\ frames' = [frames EXCEPT ![u] =
                            Append(@, [run_id |-> a.run_id,
                                       user_id |-> a.user_id,
                                       tags |-> a.tags,
                                       old |-> ctx[slot],
                                       yielded |-> new.run_id])]
            /\ ctx' = [ctx EXCEPT ![slot] = new]
            /\ nUuid' = IF Truthy(a.run_id) THEN nUuid ELSE nUuid + 1
    /\ UNCHANGED <<threadOf, lastRunId, exitKind, call, outcome, emitted, nCalls>>
    /\ UNCHANGED <<clientVars, transportVars, patchVars, redactVars, costVars, moreVars>>

\* the ways the body of a with block ends
ExitKinds == {"return", "raise"}

\* faulty variant: restoring after the yield without try/finally
RestoresOnReturn(how) == how = "return"

\* `try: yield ... finally:` restores on every way out of the body
Restores(how) == how \in ExitKinds

\* faulty variant: resetting to the default instead of the saved values
RestoredToDefault(f) == NoContext

\* the values the finally block writes back: old_run_id, old_user_id, old_tags
Restored(f) == f.old

\* leaving the innermost scope of unit u, the body returning or raising
TraceExit(u) ==
    /\ MayRun(u)
    /\ call[u].phase = "idle"
    /\ frames[u] # <<>>
    /\ \E how \in ExitKinds :
         LET slot == _run_id_context(u)
             f == frames[u][Len(frames[u])]
         IN /\ ctx' = IF Restores(how)
                      THEN [ctx EXCEPT ![slot] = Restored(f)]
                      ELSE ctx
            /\ exitKind' = [exitKind EXCEPT ![u] = how]
    /\ frames' = [frames EXCEPT ![u] = SubSeq(@, 1, Len(@) - 1)]
    /\ UNCHANGED <<threadOf, nUuid, lastRunId, call, outcome, emitted, nCalls>>
    /\ UNCHANGED <<clientVars, transportVars, patchVars, redactVars, costVars, moreVars>>

\* unit u calls get_current_run_id()
GetRunId(u) ==
    /\ MayRun(u)
    /\ call[u].phase = "idle"
    /\ LET c == ctx[_run_id_context(u)]
       IN /\ Generates(c) => nUuid < MaxUuids
          /\ lastRunId' = [lastRunId EXCEPT ![u] = get_current_run_id(c, nUuid)]
          /\ nUuid' = IF Generates(c) THEN nUuid + 1 ELSE nUuid
    /\ UNCHANGED <<ctx, frames, threadOf, exitKind, call, outcome, emitted, nCalls>>
    /\ UNCHANGED <<clientVars, transportVars, patchVars, redactVars, costVars, moreVars>>

(***************************************************************************)
(* instrumentation.py: the wrappers around the provider methods, one per   *)
(* patched method.  The five wrappers run the same steps and differ in     *)
(* what they read of the arguments and of the response; the async ones     *)
(* await the original where the sync ones call it.                         *)
(***************************************************************************)
Providers == {"openai", "anthropic"}

OpenAITargets ==
    {"openai_chat_create", "openai_chat_create_async", "openai_embeddings_create"}

AnthropicTargets == {"anthropic_messages_create", "anthropic_messages_create_async"}

\* the keys of _original_methods: one per patched class
Targets == OpenAITargets \cup AnthropicTargets

ProviderOf(t) == IF t \in OpenAITargets THEN "openai" ELSE "anthropic"

\* the wrappers made by the two *_async functions
AsyncTargets == {"openai_chat_create_async", "anthropic_messages_create_async"}

\* the wrapper of Embeddings.create
EmbeddingsTarget == "openai_embeddings_create"

\* kwargs['messages'] (kwargs['input'] of Embeddings.create): a list of
\* role/content maps, or something else (a list of strings or of objects, None)
MessagesShapes == {"maps", "not_maps"}

\* kwargs['model']: a string, absent, or something that is not a string
ModelShapes == {"string", "missing", "not_string"}

\* the response of the provider: an object with choices (content, data) and
\* usage, or one that has none of these attributes, as the stream that
\* create(stream=True) returns
ResponseShapes == {"full", "bare"}

\* what the original callable does: it returns, it raises an Exception, or
\* it raises a BaseException that is no Exception (asyncio.CancelledError,
\* KeyboardInterrupt)
OrigOutcomes == {"returns", "raises", "raises_base"}

IdleCall ==
    [phase |-> "idle", target |-> "none", messages |-> "maps", model |-> "string",
     scoped |-> FALSE, scope |-> NoContext]

NoOutcome ==
    [target |-> "none", orig_calls |-> 0, orig |-> "none", got |-> "none", events |-> 0]

\* faulty variant: wrappers without the check of the flag and the client
ObservesAlways == TRUE

\* `if not _instrumentation_enabled or _global_client is None:` is false
Observes == _instrumentation_enabled /\ _global_client # 0

\* _extract_openai_messages / _extract_anthropic_messages return:
\* msg.get(...) needs every message to be a map, the loop needs a list;
\* the wrapper of Embeddings.create takes str() of its input, whatever it is
ExtractsMessages(t, m) == t = EmbeddingsTarget \/ m = "maps"

\* kwargs.get('model', 'unknown'), kwargs.get('model', 'text-embedding-ada-002')
ModelOrDefault(md) == IF md = "missing" THEN "string" ELSE md

\* calculate_cost returns: model.startswith(...) needs a string
CostComputes(md) == ModelOrDefault(md) = "string"

\* _extract_openai_usage / _extract_anthropic_usage: the counts of the
\* response, zero when it lacks them; the wrapper of Embeddings.create passes
\* tokens_output=0
ExtractUsage(t, orig, resp) ==
    IF orig = "returns" /\ resp = "full"
    THEN IF t = EmbeddingsTarget THEN "input_only" ELSE "reported"
    ELSE "zero"

\* `status` was assigned before the finally block: the try assigns it when
\* the original returns, `except Exception` when it raises an Exception
StatusBound(orig) == orig \in {"returns", "raises"}

\* the arguments of log_prompt_call evaluate: the sync chat wrapper of OpenAI
\* reads response.choices and the embeddings wrapper response.data off a
\* response that is not None, the other wrappers use hasattr and getattr
ReadsResponse(t, orig, resp) ==
    (orig = "returns" /\ resp = "bare")
        => t \notin {"openai_chat_create", EmbeddingsTarget}

\* log_prompt_call is reached and called; whatever is raised before that
\* inside the inner try is printed and dropped
Logs(t, orig, resp) ==
    _global_client # 0 /\ StatusBound(orig) /\ ReadsResponse(t, orig, resp)

\* the context of the innermost open scope of unit u, if it has one
InScope(u) == frames[u] # <<>>

ScopeOf(u) ==
    IF InScope(u)
    THEN LET f == frames[u][Len(frames[u])]
         IN [run_id |-> f.yielded, user_id |-> f.user_id,
             tags |-> IF Truthy(f.tags) THEN f.tags ELSE EmptyList]
    ELSE NoContext

\* the wrapper up to the call of the original: the check of the enable flag,
\* the extraction of model and prompt
\* for a call of one of the given wrappers with arguments of one of the
\* given shapes
WrapperCall(u, shapes, targets) ==
    /\ MayRun(u)
    /\ call[u].phase = "idle"
    /\ nCalls < MaxCalls
    /\ nCalls' = nCalls + 1
    /\ \E m \in MessagesShapes, md \in ModelShapes, t \in targets :
         /\ <<m, md>> \in shapes
         /\ LET started(phase) == [phase |-> phase, target |-> t, messages |-> m,
                                model |-> md,
                                scoped |-> InScope(u), scope |-> ScopeOf(u)]
            IN IF ~Observes
               THEN /\ call' = [call EXCEPT ![u] = started("delegating")]
                    /\ outcome' = [outcome EXCEPT ![u] = NoOutcome]
               ELSE IF ~ExtractsMessages(t, m)
                    THEN /\ call' = call
                         /\ outcome' = [outcome EXCEPT ![u] =
                                          [target |-> t, orig_calls |-> 0,
                                           orig |-> "none",
                                           got |-> "other_exception", events |-> 0]]
                    ELSE /\ call' = [call EXCEPT ![u] = started("awaiting")]
                         /\ outcome' = [outcome EXCEPT ![u] = NoOutcome]
    /\ UNCHANGED <<ctx, frames, threadOf, nUuid, lastRunId, exitKind, emitted>>
    /\ UNCHANGED <<clientVars, transportVars, patchVars, redactVars, costVars, moreVars>>

\* the tags a wrapper puts before the ambient ones
LeadingTags(t) ==
    IF t = EmbeddingsTarget
    THEN <<"auto-instrumented", ProviderOf(t), "embedding">>
    ELSE <<"auto-instrumented", ProviderOf(t)>>

\* the event the finally block passes to log_prompt_call
EventOf(u, c, n, orig, resp) ==
    [by |-> u,
     target |-> call[u].target,
     provider |-> ProviderOf(call[u].target),
     marks |-> LeadingTags(call[u].target),
     run_id |-> get_current_run_id(c, n),
     user_id |-> c.user_id,
     tags |-> IF Truthy(c.tags) THEN c.tags ELSE EmptyList,
     status |-> IF orig = "returns" THEN "success" ELSE "error",
     tokens |-> ExtractUsage(call[u].target, orig, resp),
     scoped |-> call[u].scoped,
     scope |-> call[u].scope]

\* what the caller gets from the original
FromOriginal(orig) == IF orig = "returns" THEN "response" ELSE "exception"

\* the original returns or raises, and the wrapper runs to its end: the
\* except and finally blocks, log_prompt_call, `return response`
WrapperReturn(u) ==
    /\ MayRun(u)
    /\ call[u].phase \in {"awaiting", "delegating"}
    /\ \E orig \in OrigOutcomes, resp \in ResponseShapes :
         LET c == ctx[_run_id_context(u)]
             done(got, n) == [target |-> call[u].target, orig_calls |-> 1,
                              orig |-> orig, got |-> got, events |-> n]
         IN IF call[u].phase = "delegating"
            THEN /\ outcome' = [outcome EXCEPT ![u] = done(FromOriginal(orig), 0)]
                 /\ UNCHANGED <<emitted, nUuid>>
            ELSE IF ~CostComputes(call[u].model)
                 THEN /\ outcome' = [outcome EXCEPT ![u] = done("other_exception", 0)]
                      /\ UNCHANGED <<emitted, nUuid>>
                 ELSE /\ Generates(c) => nUuid < MaxUuids
                      /\ nUuid' = IF Generates(c) THEN nUuid + 1 ELSE nUuid
                      /\ IF Logs(call[u].target, orig, resp)
                         THEN /\ emitted' = Append(emitted,
                                                   EventOf(u, c, nUuid, orig, resp))
                              /\ outcome' = [outcome EXCEPT ![u] =
                                               done(FromOriginal(orig), 1)]
                         ELSE /\ emitted' = emitted
                              /\ outcome' = [outcome EXCEPT ![u] =
                                               done(FromOriginal(orig), 0)]
    /\ call' = [call EXCEPT ![u] = IdleCall]
    /\ UNCHANGED <<ctx, frames, threadOf, lastRunId, exitKind, nCalls>>
    /\ UNCHANGED <<clientVars, transportVars, patchVars, redactVars, costVars, moreVars>>

\* the argument shapes the wrappers are written for, and all of them
WellFormed == {<<"maps", "string">>}

\* the async wrapper unit u awaits where the units are asyncio tasks: unit u1
\* the one of OpenAI, the others the one of Anthropic
AwaitedBy(u) ==
    IF u = "u1" THEN {"openai_chat_create_async"} ELSE {"anthropic_messages_create_async"}

AllShapes == MessagesShapes \X ModelShapes

\* threads or tasks using trace() and get_current_run_id()
TraceNext ==
    \E u \in Units :
        \/ TraceEnter(u)
        \/ TraceExit(u)
        \/ GetRunId(u)

\* the same, making well-formed calls through the wrapped methods
TracedCallsNext ==
    \E u \in Units :
        \/ TraceEnter(u)
        \/ TraceExit(u)
        \/ WrapperCall(u, WellFormed, AwaitedBy(u))
        \/ WrapperReturn(u)

\* no trace() scope is open in the OS thread of unit u
NoScopeInThread(u) ==
    \A v \in Units : threadOf[v] = threadOf[u] => frames[v] = <<>>

\* traced well-formed calls, and get_current_run_id() called where no scope
\* is open
TracedIdsNext ==
    \/ TracedCallsNext
    \/ \E u \in Units : NoScopeInThread(u) /\ GetRunId(u)

\* calls of every shape through the wrapped methods, outside trace scopes
CallsNext ==
    \E u \in Units :
        \/ WrapperCall(u, AllShapes, Targets)
        \/ WrapperReturn(u)

(***************************************************************************)
(* instrumentation.py: auto_instrument() and disable_instrumentation().    *)
(* A callable is a number: 0 is the method the provider library defines,   *)
(* n + 1 is a wrapper made around callable n.  A client is a number too:   *)
(* the n-th WatchLLMClient made; 0 stands for None.                        *)
(***************************************************************************)
Original == 0

Wrap(f) == f + 1

\* `key in _original_methods` is false
Absent == -1

\* faulty variant: patching without looking at the marker
HasMarkerIgnored(t) == FALSE

\* hasattr(cls, '_watchllm_instrumented')
HasMarker(t) == marker[t]

\* faulty variant: a removal that leaves the wrapper in place
RestoredCallableKept(t) == method[t]

\* the callable a removal puts back as the method
RestoredCallable(t) == _original_methods[t]

\* faulty variant: a removal that keeps the global client
ClientKeptAfterRemoval(c) == c

\* `_global_client = None`
ClientAfterRemoval(c) == 0

\* is_instrumented()
is_instrumented == _instrumentation_enabled

\* get_client(): 0 stands for None
get_client == _global_client

(***************************************************************************)
(* The functions take no lock, so a thread can be switched out between any *)
(* two statements, and inside a statement wherever it makes a call: each   *)
(* statement of auto_instrument(), _instrument_*, _uninstrument_* and      *)
(* disable_instrumentation() is one step, and                              *)
(* `_global_client = WatchLLMClient(...)`,                                 *)
(* `cls.create = _wrap_...(cls.create)` and `_global_client.close()` are   *)
(* two.  Where the calls follow one another there is one thread; where     *)
(* they race there are two.                                                *)
(***************************************************************************)
\* the threads that call auto_instrument() and disable_instrumentation()
Installers == {"t1", "t2"}

\* a thread not inside either function
Outside == [op |-> "none", i |-> 0, at |-> "out", held |-> 0, provs |-> {}]

\* a thread that does not exist
NoThread == [op |-> "none", i |-> 0, at |-> "absent", held |-> 0, provs |-> {}]

\* there is one thread: the calls follow one another
Alone == \E p \in Installers : run[p] = NoThread

\* a thread inside disable_instrumentation() that waits for the close() of
\* client c to return: close() flushes over HTTP and joins the worker
Closing(c) ==
    [op |-> "remove", i |-> 0, at |-> "closing", held |-> c, provs |-> Providers]

\* the record of a call in `ops`: the thread that makes it, for an
\* auto_instrument() the providers it is asked for, for a
\* disable_instrumentation() the client whose close() it has called (0: none)
InstallOp(p, provs) ==
    [op |-> "install", provs |-> provs, by |-> p, closes |-> 0]

RemoveOp(p) == [op |-> "remove", provs |-> {}, by |-> p, closes |-> 0]

\* the targets in the order _instrument_openai and _instrument_anthropic
\* (and their _uninstrument counterparts) go through them
TargetOrder ==
    <<"openai_chat_create", "openai_chat_create_async",
      "openai_embeddings_create", "anthropic_messages_create",
      "anthropic_messages_create_async">>

\* a thread whose call has returned; for an auto_instrument() `held` is the
\* client it returned
Returned(kind, c) ==
    [op |-> kind, i |-> 0, at |-> "returned", held |-> c, provs |-> {}]

At(p, kind, where) == run[p].op = kind /\ run[p].at = where

\* the block of target t is run: auto_instrument() calls _instrument_* only
\* for the providers it is asked for, disable_instrumentation() calls both
\* _uninstrument_*; the imports at the head of the function raise when the
\* library is missing, and the function returns False
Reaches(kind, provs, t) ==
    /\ importable[ProviderOf(t)]
    /\ kind = "install" => ProviderOf(t) \in provs

\* the position of a call after the block of target i (0: before the first):
\* the check of the next target whose block is run, or the statements after
\* the last one
NextPosition(kind, provs, i) ==
    LET later == {j \in (i + 1)..Len(TargetOrder) :
                      Reaches(kind, provs, TargetOrder[j])}
    IN IF later = {}
       THEN [op |-> kind, i |-> 0, at |-> "tail", held |-> 0, provs |-> provs]
       ELSE [op |-> kind, i |-> CHOOSE j \in later : \A k \in later : j <= k,
             at |-> "check", held |-> 0, provs |-> provs]

AfterTarget(p) == NextPosition(run[p].op, run[p].provs, run[p].i)

\* the position after an exception inside the try of one provider's function:
\* the rest of that provider's targets is skipped
AfterRaise(p) ==
    NextPosition(run[p].op, run[p].provs,
                 IF ProviderOf(TargetOrder[run[p].i]) = "openai"
                 THEN Cardinality(OpenAITargets) ELSE Len(TargetOrder))

RaceUnchanged == UNCHANGED <<clientVars, transportVars, traceVars, redactVars,
                             costVars, importable, sentryVars, chainVars>>

\* thread p is inside neither function
Idle(p) == run[p].at \in {"out", "returned"}

\* both threads have returned from their calls
BothReturned == \A p \in Installers : run[p].at = "returned"

\* the two racing calls are over and the later disable_instrumentation() of
\* thread t1 has been called
RacingOver == run["t1"].op = "remove"

\* thread p may call auto_instrument(): a single thread makes one call after
\* the other; of two threads each makes one racing call
MayInstall(p) ==
    IF Alone THEN Idle(p) /\ Len(ops) < MaxOps ELSE run[p] = Outside

\* the arguments instrument_openai and instrument_anthropic as the set of
\* providers whose _instrument_* function the call enters
Asked(instrument_openai, instrument_anthropic) ==
    (IF instrument_openai THEN {"openai"} ELSE {})
        \cup (IF instrument_anthropic THEN {"anthropic"} ELSE {})

\* thread p may call disable_instrumentation(): a single thread between two
\* of its calls; of two threads, thread t2 as its racing call and thread t1
\* once both racing calls have returned
MayRemove(p) ==
    IF Alone THEN Idle(p) /\ Len(ops) < MaxOps
    ELSE IF p = "t1" THEN BothReturned /\ ~RacingOver ELSE run[p] = Outside

\* auto_instrument() is called: WatchLLMClient(api_key, project_id) is made,
\* and its constructor starts its flush worker
InstallStart(p) ==
    /\ MayInstall(p)
    /\ \E instrument_openai \in BOOLEAN, instrument_anthropic \in BOOLEAN :
         LET provs == Asked(instrument_openai, instrument_anthropic)
         IN /\ ops' = Append(ops, InstallOp(p, provs))
            /\ run' = [run EXCEPT ![p] =
                          [op |-> "install", i |-> 0, at |-> "client",
                           held |-> nClients + 1, provs |-> provs]]
    /\ nClients' = nClients + 1
    /\ UNCHANGED <<method, marker, _original_methods, _instrumentation_enabled,
                   _global_client>>
    /\ RaceUnchanged

\* `_global_client = ...`: the client the call made becomes the global one
InstallClient(p) ==
    /\ At(p, "install", "client")
    /\ _global_client' = run[p].held
    /\ run' = [run EXCEPT ![p] = NextPosition("install", run[p].provs, 0)]
    /\ UNCHANGED <<method, marker, _original_methods, _instrumentation_enabled,
                   nClients, ops>>
    /\ RaceUnchanged

\* `if not hasattr(cls, '_watchllm_instrumented'):`
InstallCheck(p) ==
    /\ At(p, "install", "check")
    /\ run' = [run EXCEPT ![p] =
                  IF HasMarker(TargetOrder[run[p].i])
                  THEN AfterTarget(p)
                  ELSE [run[p] EXCEPT !.at = "record"]]
    /\ UNCHANGED <<method, marker, _original_methods, _instrumentation_enabled,
                   _global_client, nClients, ops>>
    /\ RaceUnchanged

\* `_original_methods[key] = cls.create`
InstallRecord(p) ==
    /\ At(p, "install", "record")
    /\ _original_methods' =
          [_original_methods EXCEPT ![TargetOrder[run[p].i]] =
              method[TargetOrder[run[p].i]]]
    /\ run' = [run EXCEPT ![p].at = "wrap"]
    /\ UNCHANGED <<method, marker, _instrumentation_enabled, _global_client,
                   nClients, ops>>
    /\ RaceUnchanged

\* `cls.create = _wrap_...(cls.create)`, first half: the argument cls.create
\* is read and _wrap_... is called with it
InstallRead(p) ==
    /\ At(p, "install", "wrap")
    /\ run' = [run EXCEPT ![p].at = "assign",
                          ![p].held = method[TargetOrder[run[p].i]]]
    /\ UNCHANGED <<method, marker, _original_methods, _instrumentation_enabled,
                   _global_client, nClients, ops>>
    /\ RaceUnchanged

\* `cls.create = _wrap_...(cls.create)`, second half: the wrapper made around
\* the callable that was read is assigned, whatever cls.create is by now
InstallWrap(p) ==
    /\ At(p, "install", "assign")
    /\ method' = [method EXCEPT ![TargetOrder[run[p].i]] = Wrap(run[p].held)]
    /\ run' = [run EXCEPT ![p].at = "mark", ![p].held = 0]
    /\ UNCHANGED <<marker, _original_methods, _instrumentation_enabled,
                   _global_client, nClients, ops>>
    /\ RaceUnchanged

\* `cls._watchllm_instrumented = True`
InstallMark(p) ==
    /\ At(p, "install", "mark")
    /\ marker' = [marker EXCEPT ![TargetOrder[run[p].i]] = TRUE]
    /\ run' = [run EXCEPT ![p] = AfterTarget(p)]
    /\ UNCHANGED <<method, _original_methods, _instrumentation_enabled,
                   _global_client, nClients, ops>>
    /\ RaceUnchanged

\* `_instrumentation_enabled = True`
InstallEnable(p) ==
    /\ At(p, "install", "tail")
    /\ _instrumentation_enabled' = TRUE
    /\ run' = [run EXCEPT ![p].at = "return"]
    /\ UNCHANGED <<method, marker, _original_methods, _global_client, nClients,
                   ops>>
    /\ RaceUnchanged

\* `return _global_client`: the global client of that moment is returned
InstallReturn(p) ==
    /\ At(p, "install", "return")
    /\ run' = [run EXCEPT ![p] = Returned("install", _global_client)]
    /\ UNCHANGED <<method, marker, _original_methods, _instrumentation_enabled,
                   _global_client, nClients, ops>>
    /\ RaceUnchanged

\* auto_instrument(api_key, project_id, instrument_openai, instrument_anthropic)
\* run by thread p: one of its statements
auto_instrument(p) ==
    \/ InstallStart(p)
    \/ InstallClient(p)
    \/ InstallCheck(p)
    \/ InstallRecord(p)
    \/ InstallRead(p)
    \/ InstallWrap(p)
    \/ InstallMark(p)
    \/ InstallEnable(p)
    \/ InstallReturn(p)

\* disable_instrumentation() is called: `_instrumentation_enabled = False`
RemoveStart(p) ==
    /\ MayRemove(p)
    /\ _instrumentation_enabled' = FALSE
    /\ ops' = Append(ops, RemoveOp(p))
    /\ run' = [run EXCEPT ![p] = NextPosition("remove", Providers, 0)]
    /\ UNCHANGED <<method, marker, _original_methods, _global_client, nClients>>
    /\ RaceUnchanged

\* `if key in _original_methods:`
RemoveCheck(p) ==
    /\ At(p, "remove", "check")
    /\ run' = [run EXCEPT ![p] =
                  IF _original_methods[TargetOrder[run[p].i]] # Absent
                  THEN [run[p] EXCEPT !.at = "restore"]
                  ELSE AfterTarget(p)]
    /\ UNCHANGED <<method, marker, _original_methods, _instrumentation_enabled,
                   _global_client, nClients, ops>>
    /\ RaceUnchanged

\* `cls.create = _original_methods[key]`; a KeyError ends the provider's try
RemoveRestore(p) ==
    /\ At(p, "remove", "restore")
    /\ LET t == TargetOrder[run[p].i]
       IN IF _original_methods[t] # Absent
          THEN /\ method' = [method EXCEPT ![t] = RestoredCallable(t)]
               /\ run' = [run EXCEPT ![p].at = "unmark"]
          ELSE /\ method' = method
               /\ run' = [run EXCEPT ![p] = AfterRaise(p)]
    /\ UNCHANGED <<marker, _original_methods, _instrumentation_enabled,
                   _global_client, nClients, ops>>
    /\ RaceUnchanged

\* `delattr(cls, '_watchllm_instrumented')`; an AttributeError ends the
\* provider's try
RemoveUnmark(p) ==
    /\ At(p, "remove", "unmark")
    /\ LET t == TargetOrder[run[p].i]
       IN IF marker[t]
          THEN /\ marker' = [marker EXCEPT ![t] = FALSE]
               /\ run' = [run EXCEPT ![p] = AfterTarget(p)]
          ELSE /\ marker' = marker
               /\ run' = [run EXCEPT ![p] = AfterRaise(p)]
    /\ UNCHANGED <<method, _original_methods, _instrumentation_enabled,
                   _global_client, nClients, ops>>
    /\ RaceUnchanged

\* the index in `ops` of the call thread p is in: its last one
CallOf(p) ==
    CHOOSE i \in DOMAIN ops :
        ops[i].by = p /\ \A j \in DOMAIN ops : ops[j].by = p => j <= i

\* `if _global_client: _global_client.close()`: the client that is read is
\* the one whose close() is called, and close() waits for the flush and the
\* join
RemoveClient(p) ==
    /\ At(p, "remove", "tail")
    /\ IF _global_client # 0
       THEN /\ run' = [run EXCEPT ![p] = Closing(_global_client)]
            /\ ops' = [ops EXCEPT ![CallOf(p)].closes = _global_client]
       ELSE /\ run' = [run EXCEPT ![p].at = "clear"]
            /\ ops' = ops
    /\ UNCHANGED <<method, marker, _original_methods, _instrumentation_enabled,
                   _global_client, nClients>>
    /\ RaceUnchanged

\* close() has returned: `_global_client = None`, whatever client is the
\* global one by now
RemoveUnset(p) ==
    /\ At(p, "remove", "closing")
    /\ _global_client' = ClientAfterRemoval(_global_client)
    /\ run' = [run EXCEPT ![p].at = "clear", ![p].held = 0]
    /\ UNCHANGED <<method, marker, _original_methods, _instrumentation_enabled,
                   nClients, ops>>
    /\ RaceUnchanged

\* `_original_methods.clear()` and the return
RemoveClear(p) ==
    /\ At(p, "remove", "clear")
    /\ _original_methods' = [t \in Targets |-> Absent]
    /\ run' = [run EXCEPT ![p] = Returned("remove", 0)]
    /\ UNCHANGED <<method, marker, _instrumentation_enabled, _global_client,
                   nClients, ops>>
    /\ RaceUnchanged

\* disable_instrumentation() run by thread p: one of its statements
disable_instrumentation(p) ==
    \/ RemoveStart(p)
    \/ RemoveCheck(p)
    \/ RemoveRestore(p)
    \/ RemoveUnmark(p)
    \/ RemoveClient(p)
    \/ RemoveUnset(p)
    \/ RemoveClear(p)

\* the later call has been made and has returned
LaterDisabled == BothReturned /\ RacingOver

\* a single thread makes one call after the other; or thread t1 runs
\* auto_instrument(), thread t2 runs auto_instrument() or
\* disable_instrumentation(), and when both calls have returned thread t1
\* runs disable_instrumentation()
InstrumentNext ==
    \E p \in Installers : auto_instrument(p) \/ disable_instrumentation(p)

(***************************************************************************)
(* aisentry/client.py: the queue and flush() of AISentryClient.  The       *)
(* application thread logs events and calls flush(); the worker thread     *)
(* calls flush() each time its wait of flush_interval_seconds ends.  One   *)
(* step is one get_nowait(), one _send_events_batch call or one put() of   *)
(* the re-queue loop.                                                      *)
(***************************************************************************)
NoFlushCall ==
    [at |-> "idle", events |-> <<>>, k |-> 0, result |-> "none", lost |-> 0]

\* the sends so far that raised although the server took their batch
LostAnswers == sentryFlush["app"].lost + sentryFlush["worker"].lost

\* a log_* call of a client with the default sample rate, on an event the
\* redactor leaves an event: _queue_event puts it on the unbounded queue
SentryLog ==
    /\ sentryFlush["app"].at = "idle"
    /\ sentryLogs < MaxSentryLogs
    /\ sentryLogs' = sentryLogs + 1
    /\ sentryQueue' = Append(sentryQueue, sentryLogs + 1)
    /\ UNCHANGED <<sentryFlush, sentryDelivered>>
    /\ UNCHANGED <<clientVars, transportVars, traceVars, patchVars, redactVars,
                   costVars, raceVars, chainVars>>

\* flush() is called: `events = []`
SentryFlushCall(th) ==
    /\ sentryFlush[th].at = "idle"
    /\ sentryFlush' = [sentryFlush EXCEPT ![th] =
                          [at |-> "drain", events |-> <<>>, k |-> 0,
                           result |-> "none", lost |-> sentryFlush[th].lost]]
    /\ UNCHANGED <<sentryQueue, sentryLogs, sentryDelivered>>
    /\ UNCHANGED <<clientVars, transportVars, traceVars, patchVars, redactVars,
                   costVars, raceVars, chainVars>>

\* one turn of `while not self._event_queue.empty():`, and `if not events:
\* return` after the loop
SentryDrain(th) ==
    /\ sentryFlush[th].at = "drain"
    /\ IF sentryQueue # <<>>
       THEN /\ sentryQueue' = Tail(sentryQueue)
            /\ sentryFlush' = [sentryFlush EXCEPT ![th].events =
                                  Append(@, Head(sentryQueue))]
       ELSE /\ sentryQueue' = sentryQueue
            /\ sentryFlush' = [sentryFlush EXCEPT ![th] =
                                  IF sentryFlush[th].events = <<>>
                                  THEN [@ EXCEPT !.at = "idle",
                                                 !.result = "returned"]
                                  ELSE [@ EXCEPT !.at = "send"]]
    /\ UNCHANGED <<sentryLogs, sentryDelivered>>
    /\ UNCHANGED <<clientVars, transportVars, traceVars, patchVars, redactVars,
                   costVars, raceVars, chainVars>>

\* what one _send_events_batch call can end in: the server has the batch or
\* not, and the call returns or raises.  It returns only when the server
\* took the batch; it raises although the server took it when the answer is
\* a 2xx whose body response.json() cannot parse (204, a plain text) or
\* arrives after the client's timeout
SendEndings ==
    {e \in [delivered : BOOLEAN, raises : BOOLEAN] : ~e.raises => e.delivered}

\* `self._send_events_batch(events)` returns or raises
SentrySend(th) ==
    /\ sentryFlush[th].at = "send"
    /\ \E e \in SendEndings :
         /\ e.delivered /\ e.raises => LostAnswers < MaxLostAnswers
         /\ sentryDelivered' =
               IF e.delivered
               THEN [x \in DOMAIN sentryDelivered |->
                        sentryDelivered[x] + Occurrences(sentryFlush[th].events, x)]
               ELSE sentryDelivered
         /\ sentryFlush' =
               IF e.raises
               THEN [sentryFlush EXCEPT ![th].at = "requeue", ![th].k = 1,
                                        ![th].lost = IF e.delivered THEN @ + 1 ELSE @]
               ELSE [sentryFlush EXCEPT ![th].at = "idle",
                                        ![th].result = "returned"]
    /\ UNCHANGED <<sentryQueue, sentryLogs>>
    /\ UNCHANGED <<clientVars, transportVars, traceVars, patchVars, redactVars,
                   costVars, raceVars, chainVars>>

\* faulty variant: a failed flush() that puts nothing back
RequeuedNothing(q, e) == q

\* `self._event_queue.put(event)` in the except block
Requeued(q, e) == Append(q, e)

\* one turn of `for event in events:` in the except block, and `raise e`
\* after the loop
SentryRequeue(th) ==
    /\ sentryFlush[th].at = "requeue"
    /\ LET f == sentryFlush[th]
       IN IF f.k <= Len(f.events)
          THEN /\ sentryQueue' = Requeued(sentryQueue, f.events[f.k])
               /\ sentryFlush' = [sentryFlush EXCEPT ![th].k = f.k + 1]
          ELSE /\ sentryQueue' = sentryQueue
               /\ sentryFlush' = [sentryFlush EXCEPT ![th].at = "idle",
                                                     ![th].result = "raised"]
    /\ UNCHANGED <<sentryLogs, sentryDelivered>>
    /\ UNCHANGED <<clientVars, transportVars, traceVars, patchVars, redactVars,
                   costVars, raceVars, chainVars>>

\* the application logs and flushes; the worker flushes when its wait ends
\* (_flush_worker catches what flush() raises and goes on)
SentryNext ==
    \/ SentryLog
    \/ \E th \in Threads :
          \/ SentryFlushCall(th)
          \/ SentryDrain(th)
          \/ SentrySend(th)
          \/ SentryRequeue(th)

(***************************************************************************)
(* langchain.py: the callbacks of WatchLLMCallbackHandler.  The LLM,       *)
(* chain, tool, retriever and agent callbacks keep their runs in one dict, *)
(* self._runs, under the run id each is given.                             *)
(***************************************************************************)
\* the run_id arguments of the callbacks: two ids, or none
RunIds == {"r1", "r2", None}

\* the keys _runs can have: the ids given, the ids generated, and ""
RunKeys == {"r1", "r2", ""} \cup {Uuid(n) : n \in 1..MaxCallbacks}

\* no RunContext is stored under a key
NoRunContext == [filled |-> "absent", step_count |-> 0]

\* the *_start and agent callbacks: `str(run_id) if run_id else str(uuid.uuid4())`
StartKey(run_id, n) == IF Truthy(run_id) THEN run_id ELSE Uuid(n + 1)

\* the *_end and *_error callbacks: `str(run_id) if run_id else ""`
EndKey(run_id) == IF Truthy(run_id) THEN run_id ELSE ""

\* list.remove(x) where x may be absent: the first x is taken out
RemoveFirst(s, x) ==
    IF \E i \in DOMAIN s : s[i] = x
    THEN LET i == CHOOSE j \in DOMAIN s :
                      s[j] = x /\ \A h \in 1..(j - 1) : s[h] # x
         IN SubSeq(s, 1, i - 1) \o SubSeq(s, i + 1, Len(s))
    ELSE s

\* _get_run_context: the RunContext under the key, a new one when there is none
GetRunContext(runs, key) ==
    IF runs[key] = NoRunContext THEN [filled |-> "new", step_count |-> 0]
    ELSE runs[key]

\* faulty variant: looking the run up without removing it
KeptAfterCleanup(runs, key) == runs

\* _cleanup_run: `self._runs.pop(run_id, None)`, the dict afterwards
AfterCleanup(runs, key) == [runs EXCEPT ![key] = NoRunContext]

\* a log_prompt_call, log_agent_step or log_error call of the handler; `of`
\* is the key of the run it is about
HandlerEvent(log, status, key, step_name, step_number) ==
    [log |-> log, run_id |-> handler.run_id, user_id |-> handler.user_id,
     tags |-> handler.tags, status |-> status, of |-> key,
     step_name |-> step_name, step_number |-> step_number]

\* the run ids a callback adds to (starts) or takes from (ends) a history set
WithRun(ids, run_id) == IF run_id = None THEN ids ELSE ids \cup {run_id}

\* the callback `name` was given run_id
Received(name, run_id) ==
    /\ lastCallback' = [name |-> name, run_id |-> run_id]
    /\ nCallbacks' = nCallbacks + 1

\* a *_start callback: the context is made if need be, filled by the callback
\* (via) and pushed on the stack of runs
OnStart(name, via) ==
    /\ nCallbacks < MaxCallbacks
    /\ \E run_id \in RunIds :
         LET key == StartKey(run_id, nCallbacks)
             run_ctx == GetRunContext(_runs, key)
         IN /\ _runs' = [_runs EXCEPT ![key] = [run_ctx EXCEPT !.filled = via]]
            /\ _run_stack' = Append(_run_stack, key)
            /\ heldRuns' = WithRun(heldRuns, run_id)
            /\ Received(name, run_id)
    /\ UNCHANGED <<handler, logged>>
    /\ UNCHANGED <<clientVars, transportVars, traceVars, patchVars, redactVars,
                   costVars, raceVars, sentryVars>>

\* a *_end callback (known_only) or a *_error callback: the context is taken
\* out of the dict and the stack; a *_end callback returns without logging
\* when there was none.  The step number of a log_agent_step call is the
\* context's step_count after `ctx.step_count += 1`.
OnEnd(name, known_only, log, status, step_name) ==
    /\ nCallbacks < MaxCallbacks
    /\ \E run_id \in RunIds :
         LET key == EndKey(run_id)
             run_ctx == _runs[key]
         IN /\ _runs' = AfterCleanup(_runs, key)
            /\ _run_stack' = RemoveFirst(_run_stack, key)
            /\ logged' = IF known_only /\ run_ctx = NoRunContext THEN logged
                         ELSE Append(logged,
                                     HandlerEvent(log, status, key, step_name,
                                                  IF log = "log_agent_step"
                                                  THEN run_ctx.step_count + 1
                                                  ELSE 0))
            /\ heldRuns' = heldRuns \ {run_id}
            /\ Received(name, run_id)
    /\ UNCHANGED handler
    /\ UNCHANGED <<clientVars, transportVars, traceVars, patchVars, redactVars,
                   costVars, raceVars, sentryVars>>

\* on_agent_action and on_agent_finish: the context is made if need be, its
\* step_count goes up and one agent step is logged; the stack is left alone
OnAgent(name, step_name) ==
    /\ nCallbacks < MaxCallbacks
    /\ \E run_id \in RunIds :
         LET key == StartKey(run_id, nCallbacks)
             run_ctx == GetRunContext(_runs, key)
         IN /\ _runs' = [_runs EXCEPT
                            ![key] = [run_ctx EXCEPT !.step_count = @ + 1]]
            /\ logged' = Append(logged,
                                HandlerEvent("log_agent_step", "success", key,
                                             step_name, run_ctx.step_count + 1))
            /\ heldRuns' = WithRun(heldRuns, run_id)
            /\ Received(name, run_id)
    /\ UNCHANGED <<handler, _run_stack>>
    /\ UNCHANGED <<clientVars, transportVars, traceVars, patchVars, redactVars,
                   costVars, raceVars, sentryVars>>

on_llm_start == OnStart("on_llm_start", "llm")

on_chat_model_start == OnStart("on_chat_model_start", "chat")

\* on_llm_end(response, run_id)
on_llm_end == OnEnd("on_llm_end", TRUE, "log_prompt_call", "success", "")

\* on_llm_error(error, run_id): logs whether or not the run is known
on_llm_error == OnEnd("on_llm_error", FALSE, "log_prompt_call", "error", "")

on_chain_start == OnStart("on_chain_start", "chain")

on_chain_end == OnEnd("on_chain_end", TRUE, "log_agent_step", "success", "chain")

on_chain_error == OnEnd("on_chain_error", FALSE, "log_error", "error", "")

on_tool_start == OnStart("on_tool_start", "tool")

on_tool_end == OnEnd("on_tool_end", TRUE, "log_agent_step", "success", "tool")

on_tool_error == OnEnd("on_tool_error", FALSE, "log_error", "error", "")

on_agent_action == OnAgent("on_agent_action", "agent_action")

on_agent_finish == OnAgent("on_agent_finish", "agent_finish")

on_retriever_start == OnStart("on_retriever_start", "retriever")

on_retriever_end ==
    OnEnd("on_retriever_end", TRUE, "log_agent_step", "success", "retriever")

on_retriever_error == OnEnd("on_retriever_error", FALSE, "log_error", "error", "")

ChainNext ==
    \/ on_llm_start
    \/ on_chat_model_start
    \/ on_llm_end
    \/ on_llm_error
    \/ on_chain_start
    \/ on_chain_end
    \/ on_chain_error
    \/ on_tool_start
    \/ on_tool_end
    \/ on_tool_error
    \/ on_agent_action
    \/ on_agent_finish
    \/ on_retriever_start
    \/ on_retriever_end
    \/ on_retriever_error

(***************************************************************************)
(* instrumentation.py: calculate_cost.  A model name is a sequence of      *)
(* characters.  Prices are in 10^-5 USD per 1000 tokens and a cost is in   *)
(* 10^-8 USD, so that the division by 1000 is exact.                       *)
(***************************************************************************)
\* the pricing table, in the order of the dict
MODEL_PRICING ==
    <<
      [key |-> <<"g", "p", "t", "-", "4", "o">>,
       input |-> 250, output |-> 1000],
      [key |-> <<"g", "p", "t", "-", "4", "o", "-", "2", "0", "2", "4", "-", "1", "1", "-", "2", "0">>,
       input |-> 250, output |-> 1000],
      [key |-> <<"g", "p", "t", "-", "4", "o", "-", "2", "0", "2", "4", "-", "0", "8", "-", "0", "6">>,
       input |-> 250, output |-> 1000],
      [key |-> <<"g", "p", "t", "-", "4", "o", "-", "2", "0", "2", "4", "-", "0", "5", "-", "1", "3">>,
       input |-> 500, output |-> 1500],
      [key |-> <<"g", "p", "t", "-", "4", "o", "-", "m", "i", "n", "i">>,
       input |-> 15, output |-> 60],
      [key |-> <<"g", "p", "t", "-", "4", "o", "-", "m", "i", "n", "i", "-", "2", "0", "2", "4", "-", "0", "7", "-", "1", "8">>,
       input |-> 15, output |-> 60],
      [key |-> <<"g", "p", "t", "-", "4", "-", "t", "u", "r", "b", "o">>,
       input |-> 1000, output |-> 3000],
      [key |-> <<"g", "p", "t", "-", "4", "-", "t", "u", "r", "b", "o", "-", "2", "0", "2", "4", "-", "0", "4", "-", "0", "9">>,
       input |-> 1000, output |-> 3000],
      [key |-> <<"g", "p", "t", "-", "4", "-", "t", "u", "r", "b", "o", "-", "p", "r", "e", "v", "i", "e", "w">>,
       input |-> 1000, output |-> 3000],
      [key |-> <<"g", "p", "t", "-", "4", "-", "1", "1", "0", "6", "-", "p", "r", "e", "v", "i", "e", "w">>,
       input |-> 1000, output |-> 3000],
      [key |-> <<"g", "p", "t", "-", "4">>,
       input |-> 3000, output |-> 6000],
      [key |-> <<"g", "p", "t", "-", "4", "-", "0", "6", "1", "3">>,
       input |-> 3000, output |-> 6000],
      [key |-> <<"g", "p", "t", "-", "3", ".", "5", "-", "t", "u", "r", "b", "o">>,
       input |-> 50, output |-> 150],
      [key |-> <<"g", "p", "t", "-", "3", ".", "5", "-", "t", "u", "r", "b", "o", "-", "0", "1", "2", "5">>,
       input |-> 50, output |-> 150],
      [key |-> <<"g", "p", "t", "-", "3", ".", "5", "-", "t", "u", "r", "b", "o", "-", "1", "1", "0", "6">>,
       input |-> 100, output |-> 200],
      [key |-> <<"o", "1">>,
       input |-> 1500, output |-> 6000],
      [key |-> <<"o", "1", "-", "2", "0", "2", "4", "-", "1", "2", "-", "1", "7">>,
       input |-> 1500, output |-> 6000],
      [key |-> <<"o", "1", "-", "p", "r", "e", "v", "i", "e", "w">>,
       input |-> 1500, output |-> 6000],
      [key |-> <<"o", "1", "-", "m", "i", "n", "i">>,
       input |-> 300, output |-> 1200],
      [key |-> <<"o", "1", "-", "m", "i", "n", "i", "-", "2", "0", "2", "4", "-", "0", "9", "-", "1", "2">>,
       input |-> 300, output |-> 1200],
      [key |-> <<"c", "l", "a", "u", "d", "e", "-", "3", "-", "5", "-", "s", "o", "n", "n", "e", "t", "-", "2", "0", "2", "4", "1", "0", "2", "2">>,
       input |-> 300, output |-> 1500],
      [key |-> <<"c", "l", "a", "u", "d", "e", "-", "3", "-", "5", "-", "s", "o", "n", "n", "e", "t", "-", "2", "0", "2", "4", "0", "6", "2", "0">>,
       input |-> 300, output |-> 1500],
      [key |-> <<"c", "l", "a", "u", "d", "e", "-", "3", "-", "5", "-", "h", "a", "i", "k", "u", "-", "2", "0", "2", "4", "1", "0", "2", "2">>,
       input |-> 80, output |-> 400],
      [key |-> <<"c", "l", "a", "u", "d", "e", "-", "3", "-", "o", "p", "u", "s", "-", "2", "0", "2", "4", "0", "2", "2", "9">>,
       input |-> 1500, output |-> 7500],
      [key |-> <<"c", "l", "a", "u", "d", "e", "-", "3", "-", "s", "o", "n", "n", "e", "t", "-", "2", "0", "2", "4", "0", "2", "2", "9">>,
       input |-> 300, output |-> 1500],
      [key |-> <<"c", "l", "a", "u", "d", "e", "-", "3", "-", "h", "a", "i", "k", "u", "-", "2", "0", "2", "4", "0", "3", "0", "7">>,
       input |-> 25, output |-> 125],
      [key |-> <<"c", "l", "a", "u", "d", "e", "-", "2", ".", "1">>,
       input |-> 800, output |-> 2400],
      [key |-> <<"c", "l", "a", "u", "d", "e", "-", "2", ".", "0">>,
       input |-> 800, output |-> 2400],
      [key |-> <<"c", "l", "a", "u", "d", "e", "-", "i", "n", "s", "t", "a", "n", "t", "-", "1", ".", "2">>,
       input |-> 80, output |-> 240],
      [key |-> <<"t", "e", "x", "t", "-", "e", "m", "b", "e", "d", "d", "i", "n", "g", "-", "3", "-", "s", "m", "a", "l", "l">>,
       input |-> 2, output |-> 0],
      [key |-> <<"t", "e", "x", "t", "-", "e", "m", "b", "e", "d", "d", "i", "n", "g", "-", "3", "-", "l", "a", "r", "g", "e">>,
       input |-> 13, output |-> 0],
      [key |-> <<"t", "e", "x", "t", "-", "e", "m", "b", "e", "d", "d", "i", "n", "g", "-", "a", "d", "a", "-", "0", "0", "2">>,
       input |-> 10, output |-> 0]
    >>

StartsWith(s, prefix) ==
    Len(prefix) <= Len(s) /\ SubSeq(s, 1, Len(prefix)) = prefix

\* `sub in s`
Contains(s, sub) ==
    \E i \in 1..(Len(s) - Len(sub) + 1) : SubSeq(s, i, i + Len(sub) - 1) = sub

Gpt4 == <<"g", "p", "t", "-", "4">>

Gpt3 == <<"g", "p", "t", "-", "3">>

Gpt35 == <<"g", "p", "t", "-", "3", "5">>

Claude == <<"c", "l", "a", "u", "d", "e">>

PriceOf(input, output) == [input |-> input, output |-> output]

Gpt4Default == PriceOf(3000, 6000)

Gpt3Default == PriceOf(100, 200)

ClaudeDefault == PriceOf(300, 1500)

GenericDefault == PriceOf(100, 200)

\* MODEL_PRICING.get(model): the index of the entry, 0 for None
ExactMatch(m) ==
    IF \E i \in DOMAIN MODEL_PRICING : MODEL_PRICING[i].key = m
    THEN CHOOSE i \in DOMAIN MODEL_PRICING : MODEL_PRICING[i].key = m
    ELSE 0

\* faulty variant: no prefix matching
NoPrefixMatch(m) == 0

\* `for model_prefix, price in MODEL_PRICING.items(): if
\* model.startswith(model_prefix): ... break`: the first entry in the order of
\* the dict whose key the name starts with, 0 when there is none
PrefixMatch(m) ==
    LET hits == {i \in DOMAIN MODEL_PRICING : StartsWith(m, MODEL_PRICING[i].key)}
    IN IF hits = {} THEN 0 ELSE CHOOSE i \in hits : \A j \in hits : i <= j

\* the default pricing for unknown models
FamilyDefault(m) ==
    IF Contains(m, Gpt4) THEN Gpt4Default
    ELSE IF Contains(m, Gpt3) \/ Contains(m, Gpt35) THEN Gpt3Default
         ELSE IF Contains(m, Claude) THEN ClaudeDefault
              ELSE GenericDefault

EntryPrice(i) == PriceOf(MODEL_PRICING[i].input, MODEL_PRICING[i].output)

\* the pricing calculate_cost settles on
Pricing(m) ==
    IF ExactMatch(m) # 0 THEN EntryPrice(ExactMatch(m))
    ELSE IF PrefixMatch(m) # 0 THEN EntryPrice(PrefixMatch(m))
         ELSE FamilyDefault(m)

\* calculate_cost(model, tokens_input, tokens_output), in 10^-8 USD
calculate_cost(m, ti, to) == ti * Pricing(m).input + to * Pricing(m).output

\* no cost was computed
NotComputed == -1

\* the model names and token counts calculate_cost is called with
CostModels ==
    {<<"g", "p", "t", "-", "4", "o">>,
     <<"g", "p", "t", "-", "4", "o", "-", "m", "i", "n", "i">>,
     <<"g", "p", "t", "-", "4", "o", "-", "m", "i", "n", "i", "-", "2", "0", "9", "9">>,
     <<"g", "p", "t", "-", "4", "-", "3", "2", "k">>,
     <<"g", "p", "t", "-", "3", ".", "5", "-", "t", "u", "r", "b", "o">>,
     <<"f", "t", ":", "g", "p", "t", "-", "4">>,
     <<"g", "p", "t", "-", "3", "5", "-", "t", "u", "r", "b", "o">>,
     <<"x", "-", "g", "p", "t", "-", "3">>,
     <<"c", "l", "a", "u", "d", "e", "-", "9">>,
     <<"m", "y", "-", "c", "l", "a", "u", "d", "e", "-", "g", "p", "t", "-", "4">>,
     <<"o", "1", "-", "p", "r", "o">>,
     <<"u", "n", "k", "n", "o", "w", "n", "-", "m", "o", "d", "e", "l", "-", "x", "y", "z">>,
     <<>>,
     <<"t", "e", "x", "t", "-", "e", "m", "b", "e", "d", "d", "i", "n", "g", "-", "3", "-", "s", "m", "a", "l", "l">>,
     <<"g", "p", "t">>,
     <<"c", "l", "a", "u", "d", "e", "-", "3", "-", "o", "p", "u", "s", "-", "2", "0", "2", "4", "0", "2", "2", "9">>}

TokenCounts == {0, 500, 1000}

CostCall ==
    /\ cost = NotComputed
    /\ cost' = calculate_cost(model, tokens_input, tokens_output)
    /\ UNCHANGED <<model, tokens_input, tokens_output, cost_estimate_usd>>
    /\ UNCHANGED <<clientVars, transportVars, traceVars, patchVars, redactVars,
                   moreVars>>

(***************************************************************************)
(* client.py: _calculate_cost_estimate, the price table of the client, in  *)
(* the units of calculate_cost.                                            *)
(***************************************************************************)
\* the dict `pricing`
ClientPricing ==
    <<
      [key |-> <<"g", "p", "t", "-", "4", "o">>,
       input |-> 500, output |-> 1500],
      [key |-> <<"g", "p", "t", "-", "4", "o", "-", "m", "i", "n", "i">>,
       input |-> 15, output |-> 60],
      [key |-> <<"g", "p", "t", "-", "3", ".", "5", "-", "t", "u", "r", "b", "o">>,
       input |-> 50, output |-> 150],
      [key |-> <<"g", "p", "t", "-", "4", "-", "t", "u", "r", "b", "o">>,
       input |-> 1000, output |-> 3000],
      [key |-> <<"c", "l", "a", "u", "d", "e", "-", "3", "-", "5", "-", "s", "o", "n", "n", "e", "t", "-", "2", "0", "2", "4", "1", "0", "2", "2">>,
       input |-> 300, output |-> 1500]
    >>

\* `pricing.get(model)`, and the defaults when the model is not a key
ClientPriceOf(m) ==
    IF \E i \in DOMAIN ClientPricing : ClientPricing[i].key = m
    THEN LET i == CHOOSE j \in DOMAIN ClientPricing : ClientPricing[j].key = m
         IN PriceOf(ClientPricing[i].input, ClientPricing[i].output)
    ELSE IF Contains(m, Gpt4) THEN Gpt4Default ELSE GenericDefault

\* _calculate_cost_estimate(model, tokens_input, tokens_output), in 10^-8 USD
_calculate_cost_estimate(m, ti, to) ==
    ti * ClientPriceOf(m).input + to * ClientPriceOf(m).output

\* a wrapper's finally block for a response with the given model and usage:
\* cost_usd = calculate_cost(...) goes into response_metadata, and
\* log_prompt_call computes cost_estimate_usd from the same arguments
EventCosts ==
    /\ cost = NotComputed
    /\ cost' = calculate_cost(model, tokens_input, tokens_output)
    /\ cost_estimate_usd' =
          _calculate_cost_estimate(model, tokens_input, tokens_output)
    /\ UNCHANGED <<model, tokens_input, tokens_output>>
    /\ UNCHANGED <<clientVars, transportVars, traceVars, patchVars, redactVars,
                   moreVars>>

(***************************************************************************)
(* Specifications.                                                         *)
(***************************************************************************)
\* the state after WatchLLMClient.__init__(sample_rate=rate, redact_pii=on),
\* with n events already logged
ClientStart(n, rate, on) ==
    /\ queue = [i \in 1..n |-> i]
    /\ prefill = n
    /\ nLogs = 0
    /\ pc = [t \in Threads |-> IF t = "worker" THEN "loop" ELSE "idle"]
    /\ events = [t \in Threads |-> <<>>]
    /\ op = "none"
    /\ shutdown = FALSE
    /\ elapsed = 0
    /\ sent = <<>>
    /\ sendFailed = FALSE
    /\ dropped = {}
    /\ appRaised = FALSE
    /\ lastFlush = NoFlush
    /\ atClose = <<>>
    /\ closeReturned = FALSE
    /\ nFlushes = 0
    /\ nSwitches = 0
    /\ sample_rate = rate
    /\ redact_pii = on
    /\ rejected = {}

\* the same for a client made with the default arguments
ClientInit(n) == ClientStart(n, DefaultSampleRate, TRUE)

TransportIdle ==
    /\ script = <<>>
    /\ tResult = [result |-> "none", attempts |-> 0, err |-> "none"]

\* no trace scope open and no wrapper call made, units running on `threads`
TraceInit(threads) ==
    /\ ctx = [t \in OSThreads |-> NoContext]
    /\ frames = [u \in Units |-> <<>>]
    /\ threadOf = threads
    /\ nUuid = 0
    /\ lastRunId = [u \in Units |-> None]
    /\ exitKind = [u \in Units |-> "none"]
    /\ call = [u \in Units |-> IdleCall]
    /\ outcome = [u \in Units |-> NoOutcome]
    /\ nCalls = 0
    /\ emitted = <<>>

\* every unit an OS thread of its own
OwnThreads == [u \in Units |-> IF u = "u1" THEN "T1" ELSE "T2"]

\* the units are tasks of one event loop
OneThread == [u \in Units |-> "T1"]

\* the module as imported: nothing patched, no client
Unpatched(imp) ==
    /\ method = [t \in Targets |-> Original]
    /\ marker = [t \in Targets |-> FALSE]
    /\ _original_methods = [t \in Targets |-> Absent]
    /\ _instrumentation_enabled = FALSE
    /\ _global_client = 0
    /\ nClients = 0
    /\ importable = imp
    /\ ops = <<>>

BothImportable == [p \in Providers |-> TRUE]

\* the module after one auto_instrument() with both libraries installed
Patched ==
    /\ method = [t \in Targets |-> Wrap(Original)]
    /\ marker = [t \in Targets |-> TRUE]
    /\ _original_methods = [t \in Targets |-> Original]
    /\ _instrumentation_enabled = TRUE
    /\ _global_client = 1
    /\ nClients = 1
    /\ importable = BothImportable
    /\ ops = <<[op |-> "install", provs |-> Providers, by |-> "t1",
                closes |-> 0]>>

\* the wrappers in place, as a caller that took the method before a
\* disable_instrumentation() still holds them, with the enable flag and the
\* global client as given
Gated(enabled, client) ==
    /\ method = [t \in Targets |-> Wrap(Original)]
    /\ marker = [t \in Targets |-> TRUE]
    /\ _original_methods = [t \in Targets |-> Original]
    /\ _instrumentation_enabled = enabled
    /\ _global_client = client
    /\ nClients = 1
    /\ importable = BothImportable
    /\ ops = <<[op |-> "install", provs |-> Providers, by |-> "t1",
                closes |-> 0]>>

\* calculate_cost not called
CostIdle ==
    /\ model = <<>>
    /\ tokens_input = 0
    /\ tokens_output = 0
    /\ cost = NotComputed
    /\ cost_estimate_usd = NotComputed

\* no thread inside auto_instrument() or disable_instrumentation()
RaceIdle == run = [p \in Installers |-> Outside]

\* one thread calls auto_instrument() and disable_instrumentation()
OneInstaller == run = [p \in Installers |-> IF p = "t1" THEN Outside ELSE NoThread]

\* a new AISentryClient: nothing logged, no flush() running
SentryInit ==
    /\ sentryQueue = <<>>
    /\ sentryFlush = [th \in Threads |-> NoFlushCall]
    /\ sentryLogs = 0
    /\ sentryDelivered = [x \in 1..MaxSentryLogs |-> 0]

\* WatchLLMCallbackHandler(client, run_id, user_id, tags) just constructed
HandlerInit(run_id, user_id, tags) ==
    /\ handler = [run_id |-> IF Truthy(run_id) THEN run_id ELSE Uuid(0),
                  user_id |-> user_id,
                  tags |-> IF Truthy(tags) THEN tags ELSE EmptyList]
    /\ _runs = [key \in RunKeys |-> NoRunContext]
    /\ _run_stack = <<>>
    /\ nCallbacks = 0
    /\ lastCallback = [name |-> "none", run_id |-> None]
    /\ heldRuns = {}
    /\ logged = <<>>

MoreIdle == RaceIdle /\ SentryInit /\ HandlerInit("test-run-123", None, None)

\* the redactor not run
RedactIdle ==
    /\ text = <<>>
    /\ once = NotRun
    /\ twice = NotRun

\* the parts of the program a specification does not exercise
InstrumentationIdle ==
    TraceInit(OwnThreads) /\ Unpatched(BothImportable) /\ CostIdle /\ MoreIdle

Init == ClientInit(0) /\ TransportIdle /\ InstrumentationIdle /\ RedactIdle

Next == AppNext \/ WorkerNext

Spec == Init /\ [][Next]_vars

\* the scheduler runs the worker thread again and again
FairSpec == Spec /\ WF_vars(WorkerNext)

\* queue lengths around the flush cap and the queue capacity
\* the steps of a running close(): its flush(), the bounded join, the return
AppCloses == op = "close" /\ (Drain("app") \/ Send("app") \/ CloseReturn)

\* the application thread is not held up inside close(): get_nowait, a send
\* with a timeout and a join with a timeout all come back
CloseFairSpec == Spec /\ WF_vars(AppCloses)

\* a queue that holds one event more than a flush() takes
BulkInit ==
    /\ ClientInit(FlushCap + 1)
    /\ TransportIdle
    /\ InstrumentationIdle
    /\ RedactIdle

BulkSpec == BulkInit /\ [][Next]_vars

\* a queue that the next log_* call fills
FullInit ==
    /\ ClientInit(QueueCapacity - 1)
    /\ TransportIdle
    /\ InstrumentationIdle
    /\ RedactIdle

FullSpec == FullInit /\ [][Next]_vars

\* one batch send against every script of server answers
Scripts == [1..MaxResp -> Outcomes]

SendInit ==
    /\ ClientInit(0)
    /\ script \in Scripts
    /\ tResult = [result |-> "none", attempts |-> 0, err |-> "none"]
    /\ InstrumentationIdle
    /\ RedactIdle

SendBatch ==
    /\ tResult.result = "none"
    /\ tResult' = _send_events_batch(script)
    /\ UNCHANGED <<script, clientVars, traceVars, patchVars, redactVars, costVars, moreVars>>

SendSpec == SendInit /\ [][SendBatch]_vars

\* log_* calls under every kind of sample rate, on an empty queue and on one
\* that is one event short of full
SampleRates == {-50, 0, 50, 100, 150}

SampleSizes == {0, QueueCapacity - 1}

SampleInit ==
    /\ \E n \in SampleSizes, rate \in SampleRates : ClientStart(n, rate, TRUE)
    /\ TransportIdle
    /\ InstrumentationIdle
    /\ RedactIdle

SampleSpec == SampleInit /\ [][LogAny]_vars

\* the redactor run twice on every text, switched on or off
RedactInit ==
    /\ text \in Texts
    /\ once = NotRun
    /\ twice = NotRun
    /\ \E on \in BOOLEAN : ClientStart(0, DefaultSampleRate, on)
    /\ TransportIdle
    /\ InstrumentationIdle

RedactSpec == RedactInit /\ [][RedactNext]_vars

\* log_* calls for one event, serializable or not, of clients that sample
\* everything, half or nothing, with redaction switched on or off
EventRates == {0, 50, 100}

EventInit ==
    /\ text \in EventTexts
    /\ once = NotRun
    /\ twice = NotRun
    /\ \E n \in SampleSizes, rate \in EventRates, on \in BOOLEAN : ClientStart(n, rate, on)
    /\ TransportIdle
    /\ InstrumentationIdle

EventSpec == EventInit /\ [][LogText]_vars

\* OS threads opening and leaving trace scopes and calling the wrapped
\* methods, after auto_instrument()
TraceInitial ==
    /\ TraceInit(OwnThreads)
    /\ Patched
    /\ ClientInit(0)
    /\ TransportIdle
    /\ RedactIdle
    /\ CostIdle
    /\ MoreIdle

TraceSpec == TraceInitial /\ [][TraceNext]_vars

\* the same for two asyncio tasks of one event loop
AsyncInitial ==
    /\ TraceInit(OneThread)
    /\ Patched
    /\ ClientInit(0)
    /\ TransportIdle
    /\ RedactIdle
    /\ CostIdle
    /\ MoreIdle

AsyncSpec == AsyncInitial /\ [][TracedCallsNext]_vars

\* two asyncio tasks that also ask for the current run id between scopes
AsyncIdSpec == AsyncInitial /\ [][TracedIdsNext]_vars

\* threads calling the wrapped methods with arguments of every shape
CallSpec == TraceInitial /\ [][CallsNext]_vars

\* the same with the enable flag on or off and with or without a global client
GateInitial ==
    /\ \E enabled \in BOOLEAN, client \in {0, 1} : Gated(enabled, client)
    /\ TraceInit(OwnThreads)
    /\ ClientInit(0)
    /\ TransportIdle
    /\ RedactIdle
    /\ CostIdle
    /\ MoreIdle

GateSpec == GateInitial /\ [][CallsNext]_vars

\* auto_instrument() and disable_instrumentation() in any order, with each
\* provider library installed or not
PatchInitial ==
    /\ \E imp \in [Providers -> BOOLEAN] : Unpatched(imp)
    /\ TraceInit(OwnThreads)
    /\ ClientInit(0)
    /\ TransportIdle
    /\ RedactIdle
    /\ CostIdle
    /\ OneInstaller
    /\ SentryInit
    /\ HandlerInit("test-run-123", None, None)

PatchSpec == PatchInitial /\ [][InstrumentNext]_vars

\* two threads calling auto_instrument() and disable_instrumentation() at the
\* same time, on libraries not yet patched or patched by an earlier call
RaceInitial ==
    /\ Unpatched(BothImportable) \/ Patched
    /\ TraceInit(OwnThreads)
    /\ ClientInit(0)
    /\ TransportIdle
    /\ RedactIdle
    /\ CostIdle
    /\ MoreIdle

RaceSpec == RaceInitial /\ [][InstrumentNext]_vars

\* an AISentryClient whose server accepts or fails each batch
SentryInitial ==
    /\ ClientInit(0)
    /\ TransportIdle
    /\ InstrumentationIdle
    /\ RedactIdle

SentrySpec == SentryInitial /\ [][SentryNext]_vars

\* a LangChain handler made with a run id, a user id and tags, or with none
\* of them, receiving callbacks in any order
ChainInitial ==
    /\ \/ HandlerInit("test-run-123", "test-user", "[test, langchain]")
       \/ HandlerInit(None, None, None)
    /\ RaceIdle
    /\ SentryInit
    /\ ClientInit(0)
    /\ TransportIdle
    /\ TraceInit(OwnThreads)
    /\ Unpatched(BothImportable)
    /\ CostIdle
    /\ RedactIdle

ChainSpec == ChainInitial /\ [][ChainNext]_vars

\* calculate_cost called once for every model name and token counts
CostInit ==
    /\ model \in CostModels
    /\ tokens_input \in TokenCounts
    /\ tokens_output \in TokenCounts
    /\ cost = NotComputed
    /\ cost_estimate_usd = NotComputed
    /\ ClientInit(0)
    /\ TransportIdle
    /\ TraceInit(OwnThreads)
    /\ Unpatched(BothImportable)
    /\ RedactIdle
    /\ MoreIdle

CostSpec == CostInit /\ [][CostCall]_vars

\* one event of a wrapper for every model name and token counts
EventCostSpec == CostInit /\ [][EventCosts]_vars


(***************************************************************************)
(* Properties.                                                             *)
(***************************************************************************)
\* the events handed to the transport so far, in the order they were handed
RECURSIVE Flatten(_)
Flatten(batches) ==
    IF batches = <<>> THEN <<>> ELSE Head(batches) \o Flatten(Tail(batches))

Handed == UNION {Range(sent[i]) : i \in DOMAIN sent}

Increasing(s) == \A i \in 1..(Len(s) - 1) : s[i] < s[i + 1]

\* a log_* call is the step that counts one more call
LogStep == nLogs' = nLogs + 1

\* C1: the queue never holds more than its capacity (1000); a log_* call on a
\* full queue can be made (it does not block), drops the new event, leaves the
\* queue as it was and returns without raising.
C1_QueueBounded ==
    /\ [](Len(queue) <= QueueCapacity)
    /\ [](pc["app"] = "idle" /\ nLogs < LogBudget /\ Len(queue) >= QueueCapacity
            => ENABLED Log)
    /\ [][LogStep /\ Len(queue) >= QueueCapacity
            => /\ queue' = queue
               /\ dropped' = dropped \cup {NewEventId}
               /\ pc'["app"] = "idle"
               /\ ~appRaised']_vars

\* a log_* call found the queue full and dropped its event
C1_Witness == dropped # {} /\ Len(queue) = QueueCapacity /\ ~appRaised

\* C2 (as claimed): when close() has returned and no send failed, every event
\* that was queued when close() was called has been handed to the transport.
C2_CloseLosesNothing ==
    closeReturned /\ ~sendFailed => Range(atClose) \subseteq Handed

\* C3 (as claimed): after a manual flush() whose send failed, the events of the
\* batch are back in the queue and the error was raised to the caller.
C3_FailedFlushRequeues ==
    lastFlush.result = "failed" /\ lastFlush.via = "flush"
        => Range(lastFlush.batch) \subseteq Range(queue) /\ appRaised

\* C4: whenever the worker evaluates its triggers with batch_size or more
\* events queued, it calls flush() in that same tick, whatever the time since
\* the last flush; and a flush() of the worker that collected events sends them.
C4_SizeTrigger ==
    /\ [][pc["worker"] = "check" /\ pc'["worker"] # "check"
             /\ Len(queue) >= BatchSize
            => pc'["worker"] = "drain"]_vars
    /\ [][pc["worker"] = "drain" /\ pc'["worker"] # "drain"
             /\ events'["worker"] # <<>>
            => pc'["worker"] = "send"]_vars

\* the worker sends a full batch before the flush interval has elapsed
C4_Witness ==
    /\ pc["worker"] = "send"
    /\ Len(events["worker"]) >= BatchSize
    /\ elapsed < FlushIntervalSeconds

\* C5: whenever the worker evaluates its triggers with a non-empty queue and
\* flush_interval_seconds or more since its last flush, it calls flush() in
\* that tick, however few events are queued; so while the worker runs, a
\* non-empty queue is eventually flushed.
C5_TimeTrigger ==
    /\ [][pc["worker"] = "check" /\ pc'["worker"] # "check"
             /\ Len(queue) > 0 /\ elapsed >= FlushIntervalSeconds
            => pc'["worker"] = "drain"]_vars
    /\ (queue # <<>> /\ ~shutdown)
          ~> (pc["worker"] = "drain" \/ queue = <<>> \/ shutdown)

\* the worker sends a batch smaller than batch_size after the interval
C5_Witness ==
    /\ pc["worker"] = "send"
    /\ Len(events["worker"]) < BatchSize
    /\ elapsed >= FlushIntervalSeconds

\* C6: no flush() collects or hands over more than 100 events, and what a
\* flush() takes is the head of the queue: the rest stays, in its order.
C6_FlushCap ==
    /\ [](\A t \in Threads : Len(events[t]) <= FlushCap)
    /\ [](\A i \in DOMAIN sent : Len(sent[i]) <= FlushCap)
    /\ [][\A t \in Threads :
            events'[t] # events[t] /\ events'[t] # <<>>
              => LET k == Len(events'[t]) - Len(events[t])
                 IN /\ events'[t] = events[t] \o SubSeq(queue, 1, k)
                    /\ queue' = SubSeq(queue, k + 1, Len(queue))]_vars

\* a flush() handed over exactly 100 events and left the following one queued
C6_Witness ==
    \E i \in DOMAIN sent :
        /\ Len(sent[i]) = FlushCap
        /\ queue # <<>>
        /\ Head(queue) = sent[i][FlushCap] + 1
        /\ Increasing(queue)

\* C7 (as claimed): the events reach the transport in the order in which the
\* application thread logged them.
C7_HandedInLogOrder == Increasing(Flatten(sent))

\* the attempts one batch send made all ended in a transient failure
Transient(o) ==
    IF IsStatus(o) THEN o.code \in StatusForcelist ELSE TRUE

AllTransient(n) == \A i \in 1..n : Transient(script[i])

Finished == tResult.result \in {"ok", "raised"}

\* C8 (as claimed): a batch send whose attempts all end in a transient failure
\* makes at most 3 attempts and then raises.
C8_AtMostThreeAttempts ==
    Finished /\ AllTransient(tResult.attempts)
        => tResult.attempts <= 3 /\ tResult.result = "raised"

\* C8 (amended): such a send makes at most 4 attempts (the first and 3
\* retries) and then raises: exactly 4 when every attempt fails to connect,
\* exactly 1 when the first attempt is answered by a status of the list or
\* breaks after the request was sent.
C8_AtMostFourAttempts ==
    Finished /\ AllTransient(tResult.attempts)
        => /\ tResult.attempts <= 4
           /\ tResult.result = "raised"
           /\ (\A i \in 1..tResult.attempts : script[i] = ConnectError)
                 => tResult.attempts = 4
           /\ script[1] # ConnectError => tResult.attempts = 1

\* four attempts failed to connect and the send raised
C8_Witness ==
    /\ tResult.result = "raised"
    /\ tResult.attempts = 4
    /\ \A i \in 1..4 : script[i] = ConnectError

\* C9 (as claimed): a batch send answered 503, 503, 503 and then 200 succeeds.
C9_SucceedsOnThirdRetry ==
    (Finished /\ (\A i \in 1..3 : script[i] = Status(503)) /\ script[4] = Status(200))
        => tResult.result = "ok"

\* a status that is neither a success nor in status_forcelist
NonTransientStatus(o) ==
    IsStatus(o) /\ o.code >= 400 /\ o.code \notin StatusForcelist

\* C10: a batch send answered by a non-transient status (401, 404) makes
\* exactly one attempt and raises the HTTP error to its caller.
C10_NoRetryOnClientError ==
    Finished /\ NonTransientStatus(script[1])
        => /\ tResult.attempts = 1
           /\ tResult.result = "raised"
           /\ tResult.err = "HTTPError"

\* a send answered 401 raised after its only attempt
C10_Witness ==
    /\ script[1] = Status(401)
    /\ tResult.result = "raised"
    /\ tResult.attempts = 1

\* the frame of the innermost open scope of unit u
Top(u) == frames[u][Len(frames[u])]

\* the context unit u reads and writes
Ambient(u) == ctx[_run_id_context(u)]

\* unit u leaves a scope in this step
Leaves(u) == Len(frames'[u]) < Len(frames[u])

\* C11: inside trace(run_id=X), for a run id X that is given (not None, not
\* empty), get_current_run_id() returns X; and the step that leaves a scope,
\* the body returning or raising, sets run_id, user_id and tags to the values
\* they had immediately before the scope was entered.
C11_ScopeInstallsAndRestores ==
    /\ [](\A u \in Units :
            InScope(u) /\ Truthy(Top(u).run_id)
                => get_current_run_id(Ambient(u), nUuid) = Top(u).run_id)
    /\ [][\A u \in Units : Leaves(u) => Ambient(u)' = Top(u).old]_vars

\* a thread saw run id Y inside an inner scope, left that scope by raising and
\* is back in the context of the scope entered with run id X
C11_Witness ==
    \E u \in Units :
        /\ exitKind[u] = "raise"
        /\ Len(frames[u]) = 1
        /\ lastRunId[u] = "Y"
        /\ Ambient(u) = [run_id |-> "X", user_id |-> "alice", tags |-> "[x]"]

\* C12: when a thread leaves a nested scope, its context is the one the
\* immediately enclosing scope installed; when it leaves its outermost scope,
\* no run id (and no user id, no tags) is installed.
C12_NestedScopesRestoreParent ==
    /\ [][\A u \in Units :
            Leaves(u) => Ambient(u)' = IF frames'[u] = <<>>
                                       THEN NoContext
                                       ELSE ScopeOf(u)']_vars
    /\ [](\A u \in Units : ~InScope(u) => Generates(Ambient(u)))

\* a thread left an inner scope whose run id was X by returning and is back
\* in the context of the enclosing scope, entered with run id Y
C12_Witness ==
    \E u \in Units :
        /\ exitKind[u] = "return"
        /\ Len(frames[u]) = 1
        /\ lastRunId[u] = "X"
        /\ Ambient(u) = [run_id |-> "Y", user_id |-> None, tags |-> EmptyList]

\* C13: with every unit an OS thread of its own, get_current_run_id() inside
\* a thread's scope returns the run id that scope installed, and a thread
\* entering or leaving a scope leaves the context of every other thread as
\* it was.
C13_ThreadsIsolated ==
    /\ [](\A u \in Units :
            InScope(u) => get_current_run_id(Ambient(u), nUuid) = Top(u).yielded)
    /\ [][\A u, v \in Units :
            u # v /\ frames'[u] # frames[u] => Ambient(v)' = Ambient(v)]_vars

\* two threads are inside scopes at the same time, each seeing its own run id
C13_Witness ==
    /\ InScope("u1") /\ InScope("u2")
    /\ Ambient("u1").run_id = "X" /\ lastRunId["u1"] = "X"
    /\ Ambient("u2").run_id = "Y" /\ lastRunId["u2"] = "Y"

\* no scope open and no wrapper call in progress
AllQuiet == \A u \in Units : ~InScope(u) /\ call[u].phase = "idle"

\* C14 (as claimed): with the units being tasks of one thread, every event a
\* wrapper emits for a call made inside a scope carries that scope's run_id,
\* user_id and tags, and when all scopes are left the context is what it was
\* before the first was entered.
C14_TasksIsolated ==
    /\ \A i \in DOMAIN emitted :
          emitted[i].scoped
              => /\ emitted[i].run_id = emitted[i].scope.run_id
                 /\ emitted[i].user_id = emitted[i].scope.user_id
                 /\ emitted[i].tags = emitted[i].scope.tags
    /\ AllQuiet => \A t \in OSThreads : ctx[t] = NoContext

\* no call is under way
NoCallRunning == \A p \in Installers : run[p].at \in {"out", "returned", "absent"}

\* the step is a statement of an auto_instrument() call
Installing ==
    \E p \in Installers : run'[p] # run[p] /\ run'[p].op = "install"

\* C15: no statement of an auto_instrument() call changes the method, the
\* recorded callable or the marker of a target that is marked; and between
\* calls that follow one another a marked method is the original wrapped
\* once, the callable recorded for it being the original itself.
C15_InstallTwiceIsNoOp ==
    /\ [][\A t \in Targets :
            marker[t] /\ Installing
                => /\ method'[t] = method[t]
                   /\ _original_methods'[t] = _original_methods[t]
                   /\ marker'[t]]_vars
    /\ [](NoCallRunning =>
            \A t \in Targets :
                marker[t] => /\ method[t] = Wrap(Original)
                             /\ _original_methods[t] = Original)

\* auto_instrument() was called twice in a row for openai, both calls have
\* returned, and the openai methods are wrapped once
C15_Witness ==
    /\ Len(ops) = 2
    /\ \A i \in 1..2 : ops[i].op = "install" /\ "openai" \in ops[i].provs
    /\ NoCallRunning
    /\ \A t \in OpenAITargets : marker[t] /\ method[t] = Wrap(Original)

\* the step is the one in which a disable_instrumentation() call returns
Removes ==
    \E p \in Installers :
        run[p].op = "remove" /\ run[p].at # "returned"
            /\ run'[p].at = "returned"

\* the step is the one in which thread p returns from auto_instrument()
InstallReturns(p) ==
    run[p].op = "install" /\ run[p].at # "returned" /\ run'[p].at = "returned"

CleanTarget(t) ==
    /\ method[t] = Original
    /\ ~marker[t]
    /\ _original_methods[t] = Absent

\* C16: where the calls follow one another, disable_instrumentation(), after
\* whatever auto_instrument() calls, has left every method the original,
\* unmarked, and the registry empty and the enable flag off when it returns;
\* so does the module start, and an auto_instrument() has, when it returns,
\* wrapped once every target it is asked for and can import.
C16_RemoveRestoresOriginals ==
    /\ [][Removes
            => (\A t \in Targets : CleanTarget(t))'
                 /\ ~_instrumentation_enabled']_vars
    /\ [](NoCallRunning /\ ~(\E t \in Targets : marker[t])
            => \A t \in Targets : CleanTarget(t))
    /\ [][\A p \in Installers, t \in Targets :
            InstallReturns(p)
              /\ ProviderOf(t) \in run[p].provs /\ importable[ProviderOf(t)]
                => /\ method'[t] = Wrap(Original)
                   /\ _original_methods'[t] = Original
                   /\ marker'[t]]_vars

\* two cycles: the methods were patched, restored and are patched again
C16_Witness ==
    /\ Len(ops) = 3
    /\ ops[1].op = "install" /\ ops[1].provs = Providers
    /\ ops[2].op = "remove"
    /\ ops[3].op = "install"
    /\ NoCallRunning
    /\ \A t \in Targets : method[t] = Wrap(Original)

\* unit u made a call through a wrapper and the call is over
Called(u) == outcome[u].got # "none"

\* C17 (as claimed): a call whose original raised emitted one event with
\* status error, and its caller got the exception of the original.
C17_ErrorEventThenReraise ==
    \A u \in Units :
        Called(u) /\ outcome[u].orig = "raises"
            => /\ outcome[u].events = 1
               /\ \E i \in DOMAIN emitted :
                     emitted[i].by = u /\ emitted[i].status = "error"
               /\ outcome[u].got = "exception"

\* C18 (as claimed): whatever the shapes of the arguments, a call through a
\* wrapper calls the original once and gives its caller what the original
\* returned or raised.
C18_ObservationNeverInterferes ==
    \A u \in Units :
        Called(u) => /\ outcome[u].orig_calls = 1
                     /\ outcome[u].got = FromOriginal(outcome[u].orig)

\* some address is left in text t
HasEmail(t) == \E i \in 1..Len(t) : EmailEnd(t, i) # 0

\* C19 (as claimed): a log_* call of a client whose sample rate is 1.0 or more
\* puts its event on the queue, and one of a client whose rate is 0.0 or less
\* leaves the queue as it is.
C19_RateDecidesQueueing ==
    [][LogStep => /\ sample_rate >= 100 => queue' = Append(queue, NewEventId)
                  /\ sample_rate <= 0 => queue' = queue]_vars

\* C20 (as claimed): with redaction on, redacting a text returns a text with
\* no address left in it, and redacting that text again returns it unchanged.
C20_RedactionIdempotent ==
    redact_pii /\ once # NotRun
        => /\ once.state = "ok"
           /\ ~HasEmail(once.text)
           /\ twice # NotRun => twice = once

\* C21 (as claimed): when json.dumps of the event fails in the redactor, the
\* redactor returns the event as it was, the log_* call puts the event on the
\* queue (unless the queue is full) and returns without raising.
C21_RedactionFailureKeepsEvent ==
    [][LogStep /\ redact_pii /\ ~IsSerializable(text)
              /\ sample_rate >= 100 /\ ~QueueFull(queue)
         => /\ _redact_pii(text) = [state |-> "ok", text |-> text]
            /\ queue' = Append(queue, NewEventId)
            /\ ~appRaised']_vars

\* a send of the worker's flush() failed: some send failed and the application
\* never called flush() or close()
WorkerSendFailed == sendFailed /\ lastFlush = NoFlush /\ op = "none"

\* C22: the worker stops only after shutdown was signalled, and after a
\* delivery error in a flush it started it comes back to the evaluation of the
\* flush triggers, unless shutdown is signalled first.
C22_WorkerSurvivesDeliveryError ==
    /\ [](pc["worker"] = "stopped" => shutdown)
    /\ (WorkerSendFailed /\ pc["worker"] = "stamp")
           ~> (pc["worker"] = "check" \/ shutdown)

\* a send of the worker failed and the worker is evaluating its triggers again
C22_Witness ==
    /\ WorkerSendFailed
    /\ pc["worker"] = "check"
    /\ ~shutdown

\* C23: close() sets the shutdown event, runs one flush() and returns without
\* raising, whether that flush delivered, failed or found nothing, and whether
\* or not the worker has stopped when the join comes back.
C23_CloseAlwaysCompletes ==
    /\ [](closeReturned => shutdown /\ ~appRaised)
    /\ [][closeReturned' /\ ~closeReturned
             => /\ lastFlush.via = "close"
                /\ lastFlush.result \in {"empty", "sent", "failed"}]_vars
    /\ (op = "close" ~> closeReturned)

\* close() returned after a final flush that failed, with the worker still
\* running
C23_Witness ==
    /\ closeReturned
    /\ lastFlush = [result |-> "failed", batch |-> atClose, via |-> "close"]
    /\ atClose # <<>>
    /\ pc["worker"] \notin {"stopped", "loop"}

\* C24 (as claimed): a get_current_run_id() call made where no scope is open
\* in the calling thread returns an id generated for this call, which no
\* earlier call returned, and leaves the ambient context as it was.
C24_FreshIdOutsideScopes ==
    [][\A u \in Units :
         NoScopeInThread(u) /\ lastRunId'[u] # lastRunId[u]
            => /\ lastRunId'[u] = Uuid(nUuid + 1)
               /\ nUuid' = nUuid + 1
               /\ ctx' = ctx]_vars

\* C25: where the calls follow one another, when an auto_instrument() call
\* returns is_instrumented() is true and get_client() returns the client
\* that call made, which is the one the call returns; when a
\* disable_instrumentation() call returns, also one made when nothing was
\* enabled, is_instrumented() is false and get_client() returns None.
C25_FlagAndClientFollowCalls ==
    [][/\ \A p \in Installers :
            InstallReturns(p)
                => /\ is_instrumented'
                   /\ get_client' # 0
                   /\ get_client' = nClients'
                   /\ run'[p].held = get_client'
       /\ Removes => ~is_instrumented' /\ get_client' = 0]_vars

\* disabled before anything was enabled, then enabled, then disabled again
C25_Witness ==
    /\ Len(ops) = 3
    /\ ops[1].op = "remove"
    /\ ops[2].op = "install"
    /\ ops[3].op = "remove"
    /\ ops[3].closes # 0
    /\ NoCallRunning
    /\ ~is_instrumented
    /\ get_client = 0

\* the entries of the pricing table
Entries == DOMAIN MODEL_PRICING

GptFourO == <<"g", "p", "t", "-", "4", "o">>

\* the prices the stated order allows for model name m
AllowedPrices(m) ==
    IF \E i \in Entries : MODEL_PRICING[i].key = m
    THEN {EntryPrice(i) : i \in {j \in Entries : MODEL_PRICING[j].key = m}}
    ELSE IF \E i \in Entries : StartsWith(m, MODEL_PRICING[i].key)
         THEN {EntryPrice(i) : i \in {j \in Entries : StartsWith(m, MODEL_PRICING[j].key)}}
         ELSE IF Contains(m, Gpt4) THEN {Gpt4Default}
              ELSE IF Contains(m, Gpt3) THEN {Gpt3Default}
                   ELSE IF Contains(m, Claude) THEN {ClaudeDefault}
                        ELSE {GenericDefault}

\* C26: the cost is tokens_input times the input price plus tokens_output
\* times the output price, over 1000, at the prices of the entry whose key is
\* the model name, else of an entry whose key the name starts with, else of
\* the family named in it, else the generic ones; gpt-4o with 1000 and 500
\* tokens costs 0.0075 USD.
C26_CostFollowsPriceOrder ==
    cost # NotComputed =>
        /\ \E p \in AllowedPrices(model) :
              cost = tokens_input * p.input + tokens_output * p.output
        /\ (model = GptFourO /\ tokens_input = 1000 /\ tokens_output = 500)
              => cost = 750000

\* a name priced through a prefix: more than one key is a prefix of it and
\* none equals it
C26_Witness ==
    /\ cost # NotComputed
    /\ ExactMatch(model) = 0
    /\ Cardinality({i \in Entries : StartsWith(model, MODEL_PRICING[i].key)}) > 1
    /\ tokens_input = 1000
    /\ tokens_output = 500

\* the application has not called flush() or close(): every send so far is
\* the worker's
WorkerOnly == op = "none" /\ lastFlush = NoFlush

\* C27: the worker starts no flush on a tick that finds fewer than batch_size
\* events queued and less than flush_interval_seconds elapsed since its last
\* flush or its start; so what it sends is a batch of at least batch_size
\* events or one sent when the interval has elapsed.
C27_WorkerSilentBelowThresholds ==
    /\ [][pc["worker"] = "check" /\ pc'["worker"] = "drain"
             => Len(queue) >= BatchSize \/ elapsed >= FlushIntervalSeconds]_vars
    /\ [][WorkerOnly /\ sent' # sent
             => \/ Len(sent'[Len(sent')]) >= BatchSize
                \/ elapsed >= FlushIntervalSeconds]_vars

\* the worker went back to sleep over a queue of one event, some seconds
\* after its start, and nothing was sent
C27_Witness ==
    /\ WorkerOnly
    /\ pc["worker"] = "sleep"
    /\ Len(queue) = 1
    /\ elapsed >= 2 * SleepSeconds
    /\ elapsed < FlushIntervalSeconds
    /\ sent = <<>>

\* C28: while the enable flag is off or there is no global client, a call
\* through a wrapper calls the original once, hands its caller what the
\* original returned or raised, and no event is emitted.
C28_GateOffOnlyDelegates ==
    (~_instrumentation_enabled \/ _global_client = 0)
        => /\ emitted = <<>>
           /\ \A u \in Units :
                 Called(u) => /\ outcome[u].orig_calls = 1
                              /\ outcome[u].got = FromOriginal(outcome[u].orig)
                              /\ outcome[u].events = 0

\* with the flag off and a client in place one call came back with the
\* original's response and another with its exception
C28_Witness ==
    /\ ~_instrumentation_enabled
    /\ _global_client # 0
    /\ outcome["u1"].orig_calls = 1
    /\ outcome["u1"].orig = "raises"
    /\ outcome["u1"].got = "exception"
    /\ outcome["u1"].events = 0
    /\ outcome["u2"].orig_calls = 1
    /\ outcome["u2"].orig = "returns"
    /\ outcome["u2"].got = "response"
    /\ outcome["u2"].events = 0

\* the ids of s follow one another without a gap
Contiguous(s) == \A k \in 1..(Len(s) - 1) : s[k + 1] = s[k] + 1

\* C29 (as claimed): what one flush() removes from the queue is a run of
\* events that stood next to one another in the queue, also when the worker
\* and the application drain at the same time.
C29_DrainAtomic == \A i \in DOMAIN sent : Contiguous(sent[i])

\* C30 (as claimed): a worker that is in its wait between two ticks when
\* shutdown is signalled leaves the wait without any more of the wait's time
\* passing.
C30_WaitInterruptible ==
    [][pc["worker"] = "sleep" /\ shutdown /\ pc'["worker"] # "sleep"
          => elapsed' = elapsed]_vars

\* C31 (as claimed): after auto_instrument() has run in two threads at once,
\* or at once with disable_instrumentation(), every target is wrapped at most
\* once and the callable recorded as its original is the provider's own
\* method; a disable_instrumentation() called afterwards leaves every target
\* with the provider's own method.
C31_ConcurrentPatchingSafe ==
    /\ BothReturned =>
          \A t \in Targets :
              /\ method[t] \in {Original, Wrap(Original)}
              /\ _original_methods[t] \in {Absent, Original}
    /\ LaterDisabled => \A t \in Targets : method[t] = Original

\* C32 (as claimed): a call through a wrapper whose original returned, made
\* with instrumentation enabled, emitted exactly one event, with status
\* success, the ambient run id of the caller, the provider's name and the tags
\* "auto-instrumented" and the provider before the ambient tags, and the
\* caller got the response of the original.
C32_SuccessEmitsOneTaggedEvent ==
    \A u \in Units :
        Called(u) /\ outcome[u].orig = "returns"
            => /\ outcome[u].events = 1
               /\ outcome[u].got = "response"
               /\ \E i \in DOMAIN emitted :
                     /\ emitted[i].by = u
                     /\ emitted[i].status = "success"
                     /\ emitted[i].provider = ProviderOf(outcome[u].target)
                     /\ SubSeq(emitted[i].marks, 1, 2)
                           = <<"auto-instrumented", ProviderOf(outcome[u].target)>>
                     /\ emitted[i].scoped =>
                           /\ emitted[i].run_id = emitted[i].scope.run_id
                           /\ emitted[i].tags = emitted[i].scope.tags

\* unit u is in a scope opened inside another scope of its own
Nested(u) == Len(frames[u]) >= 2

\* C33 (as claimed): inside a nested scope, a field the inner trace() call
\* was not given (None) has the value it had in the enclosing scope, and a
\* field it was given has the given value.
C33_NestedScopeInherits ==
    \A u \in Units :
        Nested(u) =>
            /\ Ambient(u).run_id =
                  IF Top(u).run_id = None THEN Top(u).old.run_id
                  ELSE IF Truthy(Top(u).run_id) THEN Top(u).run_id
                  ELSE Ambient(u).run_id
            /\ Ambient(u).user_id =
                  IF Top(u).user_id = None THEN Top(u).old.user_id
                  ELSE Top(u).user_id
            /\ Ambient(u).tags =
                  IF Top(u).tags = None THEN Top(u).old.tags ELSE Top(u).tags

\* how many times e occurs in sequence q
\* the application's flush() raises in this step
SentryRaises ==
    sentryFlush["app"].at = "requeue" /\ sentryFlush'["app"].result = "raised"

\* the events thread th has taken from the queue and neither delivered nor
\* put back yet
InHand(th) ==
    LET f == sentryFlush[th]
    IN IF f.at \in {"drain", "send"} THEN f.events
       ELSE IF f.at = "requeue" THEN SubSeq(f.events, f.k, Len(f.events))
       ELSE <<>>

\* C34 (as claimed): when a flush() of the application re-raises the send
\* error, every event it drained is in the queue exactly once.
C34_FailedFlushEventsInQueue ==
    [][SentryRaises =>
          \A e \in Range(sentryFlush["app"].events) :
              Occurrences(sentryQueue', e) = 1]_vars

\* the events that wait for a delivery: those in the queue and those a
\* flush() holds
Pending == sentryQueue \o InHand("app") \o InHand("worker")

\* C34 (amended): a failed flush() puts every event it drained back exactly
\* once: when it re-raises, each of them is once in the queue, or in the
\* hands of a flush of the worker that took it from the queue meanwhile, or
\* that flush delivered it; and at no time is an event lost (neither waiting
\* nor delivered) or waiting twice.
C34_FailedFlushRequeuesOnce ==
    /\ [][SentryRaises =>
            \A e \in Range(sentryFlush["app"].events) :
                \/ Occurrences(sentryQueue' \o InHand("worker")', e) = 1
                \/ /\ Occurrences(sentryQueue' \o InHand("worker")', e) = 0
                   /\ sentryDelivered'[e] >= 1]_vars
    /\ [](\A e \in 1..sentryLogs :
            /\ Occurrences(Pending, e) <= 1
            /\ Occurrences(Pending, e) = 1
                  \/ sentryDelivered[e] >= 1)

\* a flush() of the application that drained events 1 and 2 has raised, both
\* are back in the queue, and nothing was delivered
C34_Witness ==
    /\ sentryFlush["app"].result = "raised"
    /\ sentryFlush["app"].events = <<1, 2>>
    /\ Occurrences(sentryQueue, 1) = 1
    /\ Occurrences(sentryQueue, 2) = 1
    /\ sentryDelivered = [x \in 1..MaxSentryLogs |-> 0]

\* this step is an on_llm_end callback with a run id
EndsRun ==
    /\ nCallbacks' = nCallbacks + 1
    /\ lastCallback'.name = "on_llm_end"
    /\ lastCallback'.run_id # None

\* the log_prompt_call an on_llm_end makes for the run it was given
PromptCallOf(run_id) ==
    [log |-> "log_prompt_call", run_id |-> handler.run_id,
     user_id |-> handler.user_id, tags |-> handler.tags,
     status |-> "success", of |-> run_id, step_name |-> "", step_number |-> 0]

\* C35: an on_llm_end whose run id is started (given to on_llm_start,
\* on_chat_model_start or another start or agent callback, and to no end or
\* error callback since) makes exactly one log_prompt_call, with the run_id,
\* user_id and tags of the handler; an on_llm_end whose run id was never
\* started, or was ended already, makes none.
C35_EndLogsHeldRunOnce ==
    [][EndsRun =>
          logged' = IF lastCallback'.run_id \in heldRuns
                    THEN Append(logged, PromptCallOf(lastCallback'.run_id))
                    ELSE logged]_vars

\* run r1 was started by on_chat_model_start and ended, which logged one
\* call with the handler's run id; a second on_llm_end for r1 logged nothing
C35_Witness ==
    /\ nCallbacks = 3
    /\ lastCallback = [name |-> "on_llm_end", run_id |-> "r1"]
    /\ _run_stack = <<>>
    /\ heldRuns = {}
    /\ Len(logged) = 1
    /\ logged[1].log = "log_prompt_call"
    /\ logged[1].of = "r1"
    /\ logged[1].run_id = "test-run-123"
    /\ logged[1].status = "success"

\* C36: no event is in two batches handed to the transport, nor in the hands
\* of two flushes, nor still queued once a flush has taken it, whatever the
\* interleaving of the worker's flushes, manual flushes and close().
C36_EachEventInOneBatch ==
    \A e \in 1..(prefill + nLogs) :
        Occurrences(Flatten(sent) \o events["app"] \o events["worker"] \o queue,
                    e) <= 1

\* close() has returned after three events were logged, and they went to the
\* transport in more than one batch
C36_Witness ==
    /\ closeReturned
    /\ Len(sent) >= 2
    /\ Cardinality(Handed) = MaxLogs
    /\ \A i \in DOMAIN sent : sent[i] # <<>>

\* the worker calls flush() in this step
WorkerStartsFlush == pc["worker"] = "check" /\ pc'["worker"] = "drain"

\* the worker's flush() posts a batch through the session in this step
WorkerUsesSession == pc["worker"] = "send" /\ pc'["worker"] # "send"

\* C37 (as claimed): once close() has returned, the worker neither starts a
\* flush nor sends a batch through the session.
C37_WorkerQuietAfterClose ==
    [][closeReturned => ~WorkerStartsFlush /\ ~WorkerUsesSession]_vars

\* C38 (as claimed): a log_* call made after close() has returned leaves the
\* queue as it is.
C38_NoEnqueueAfterClose == [][closeReturned /\ LogStep => queue' = queue]_vars

\* the clients whose close() a disable_instrumentation() has called
ClosedClients == {ops[i].closes : i \in DOMAIN ops}

\* the clients whose flush worker runs: every auto_instrument() makes a
\* client, whose constructor starts its worker; disable_instrumentation()
\* closes the global client it finds, if there is one
RunningWorkers == (1..nClients) \ ClosedClients

\* C39 (as claimed): at most one client made by auto_instrument() has a
\* running flush worker.
C39_OneRunningWorker == Cardinality(RunningWorkers) <= 1

\* C40 (as claimed): the cost_estimate_usd of an event a wrapper emitted
\* equals the cost_usd in its response_metadata.
C40_EstimateEqualsCost == cost # NotComputed => cost_estimate_usd = cost

====
